---- MODULE Spec2Model ----
(***************************************************************************)
(* Selection-marker editing and marker-scoped export of the timeline       *)
(* editor: the marker store of SelectionGroupOverlay, its drag engine,     *)
(* the modification tracker, the start of sequential play, and the export  *)
(* slicer of DownloadPopover.                                              *)
(*                                                                         *)
(* Times are integers in milliseconds.  A persisted "seconds" value is a   *)
(* fixed-point number counting 1/SecDen of a second (milliseconds).  One   *)
(* step of the model is one event handler together with the render and the *)
(* effects React flushes after it.                                         *)
(***************************************************************************)
EXTENDS Integers, Sequences, FiniteSets, TLC

\* ------------------------------------------------------------------ bounds
\* The timeline is MaxTime ms long: no drag puts a marker's end beyond it.
MaxTime == 5000
\* Drag updates (pointer moves of a gesture) handled in one run.
MaxDragUpdates == 2
\* Marker ids the selection holds at the same time.
MaxSelected == 2
\* Save requests that may be awaiting their response at the same time.
MaxInFlight == 2
\* 500 ms dwell timeouts of sequential play that may be pending at the same
\* time.
MaxPendingPauses == 2

\* ------------------------------------------------------- program constants
\* Minimum marker duration of the resize branches (the literal 100).
MinDurationMs == 100
\* Zoom multiplier of the pause-to-zoom timer (scale.zoom * 10).
ZoomFactor == 10
\* Pixel threshold of the pause detection (Math.abs(...) > 5).
MoveThresholdPx == 5
\* delay of the pause timer, in ms
PauseDelayMs == 2000
\* the step by which time advances in the model, in ms
TickMs == 1000
\* Frame rate of the store (useStore().fps); 25 keeps frame times integral.
Fps == 25
\* Sub-units per second of the persisted fixed-point seconds: 2.05 s is 2050.
\* handleSave persists startMs / 1000, a value with three decimals.
SecDen == 1000

\* ----------------------------------------------------------------- helpers
Max(a, b) == IF a >= b THEN a ELSE b
Min(a, b) == IF a <= b THEN a ELSE b
Abs(a) == IF a < 0 THEN -a ELSE a

\* An optional JavaScript value: <<>> is undefined/null, <<v>> is the value v.
None == <<>>
Some(v) == <<v>>

\* JavaScript truthiness of an optional number: undefined and 0 are falsy.
Truthy(o) == o # None /\ o[1] # 0

\* a || b || 0 on optional numbers.
JsOr3(a, b) == IF Truthy(a) THEN a[1] ELSE IF Truthy(b) THEN b[1] ELSE 0

\* timeMsToUnits / unitsToTimeMs of the timeline library: linear in the time,
\* inverse of each other for a fixed zoom.
TimeMsToUnits(ms, zoom) == ms * zoom
UnitsToTimeMs(units, zoom) == units \div zoom

\* Math.round((t * fps) / 1000) and (frame / fps) * 1000.
TimeToFrame(t) == (2 * t * Fps + 1000) \div 2000
FrameToTime(f) == (f * 1000) \div Fps
RoundToFrame(t) == FrameToTime(TimeToFrame(t))

\* ----------------------------------------------------------------- markers
Marker(id, label, s, e, gid, vid) ==
    [id |-> id, label |-> label, startMs |-> s, endMs |-> e,
     groupId |-> gid, videoItemId |-> vid]

Ids(ms) == {ms[i].id : i \in 1..Len(ms)}

\* markers.find((m) => m.id === id): the index of the first match, 0 if none.
FindIndex(ms, id) ==
    IF \E i \in 1..Len(ms) : ms[i].id = id
    THEN CHOOSE i \in 1..Len(ms) :
            ms[i].id = id /\ \A j \in 1..(i - 1) : ms[j].id # id
    ELSE 0

\* [...ms].sort((a, b) => a.startMs - b.startMs): a stable sort by startMs.
RECURSIVE InsertByStart(_, _)
InsertByStart(sorted, m) ==
    IF sorted = <<>> THEN <<m>>
    ELSE IF Head(sorted).startMs <= m.startMs
         THEN <<Head(sorted)>> \o InsertByStart(Tail(sorted), m)
         ELSE <<m>> \o sorted

RECURSIVE SortByStart(_)
SortByStart(ms) ==
    IF ms = <<>> THEN <<>>
    ELSE InsertByStart(SortByStart(SubSeq(ms, 1, Len(ms) - 1)), ms[Len(ms)])

\* JSON.parse(JSON.stringify(ms)): every field copied, an absent videoItemId
\* stays absent.
JsonCopy(ms) ==
    [i \in 1..Len(ms) |->
        Marker(ms[i].id, ms[i].label, ms[i].startMs, ms[i].endMs,
               ms[i].groupId, ms[i].videoItemId)]

\* ------------------------------------------------------ persisted groups
\* One entry of a timeframes value: {start, end}, {from, to} or [a, b]; or a
\* malformed one: null, or a JSON number (a value without any of the fields).
TfStartEnd(s, e) ==
    [isNull |-> FALSE, isArray |-> FALSE, pair |-> <<>>,
     start |-> Some(s), end |-> Some(e), from |-> None, to |-> None]
TfFromTo(f, t) ==
    [isNull |-> FALSE, isArray |-> FALSE, pair |-> <<>>,
     start |-> None, end |-> None, from |-> Some(f), to |-> Some(t)]
TfPair(a, b) ==
    [isNull |-> FALSE, isArray |-> TRUE, pair |-> <<a, b>>,
     start |-> None, end |-> None, from |-> None, to |-> None]
TfNull ==
    [isNull |-> TRUE, isArray |-> FALSE, pair |-> <<>>,
     start |-> None, end |-> None, from |-> None, to |-> None]
TfNumber ==
    [isNull |-> FALSE, isArray |-> FALSE, pair |-> <<>>,
     start |-> None, end |-> None, from |-> None, to |-> None]

Entry(label, tf) == [label |-> label, tf |-> tf]

\* Scenario A of the specification: A:[0 s, 2 s], B:[3 s, 5 s].
GroupAB ==
    [id |-> "g1", isObject |-> TRUE,
     entries |-> << Entry("A", TfStartEnd(0, 2000)),
                    Entry("B", TfStartEnd(3000, 5000)) >>]
\* Scenario B: a single marker A:[1 s, 3 s].
GroupSolo ==
    [id |-> "g2", isObject |-> TRUE,
     entries |-> << Entry("A", TfStartEnd(1000, 3000)) >>]
\* Touching intervals, the second one 50 ms long: A:[0 s, 1 s], B:[1 s, 1.05 s].
GroupShort ==
    [id |-> "g3", isObject |-> TRUE,
     entries |-> << Entry("A", TfFromTo(0, 1000)),
                    Entry("B", TfPair(1000, 1050)) >>]
\* timeframes persisted as an array of pairs.
GroupArray ==
    [id |-> "g4", isObject |-> FALSE,
     entries |-> << Entry("0", TfPair(0, 1000)) >>]
\* Scenario C, the later interval persisted first: D:[5 s, 6 s], C:[2 s, 4 s].
GroupCD ==
    [id |-> "g5", isObject |-> TRUE,
     entries |-> << Entry("D", TfStartEnd(5000, 6000)),
                    Entry("C", TfStartEnd(2000, 4000)) >>]
\* A null entry after a valid one: A:{start: 0, end: 2}, B: null.
GroupNull ==
    [id |-> "g6", isObject |-> TRUE,
     entries |-> << Entry("A", TfStartEnd(0, 2000)), Entry("B", TfNull) >>]
\* A number where an interval is expected, before valid entries of the other
\* two shapes: A: 7, B:[3 s, 4 s], C:{from: 1, to: 2}.
GroupNumber ==
    [id |-> "g7", isObject |-> TRUE,
     entries |-> << Entry("A", TfNumber), Entry("B", TfPair(3000, 4000)),
                    Entry("C", TfFromTo(1000, 2000)) >>]

Groups ==
    {GroupAB, GroupSolo, GroupShort, GroupArray, GroupCD, GroupNull,
     GroupNumber}

\* tf.start || tf.from || 0 and tf.end || tf.to || 0, or the pair's elements.
TfStart(tf) == IF tf.isArray THEN tf.pair[1] ELSE JsOr3(tf.start, tf.from)
TfEnd(tf) == IF tf.isArray THEN tf.pair[2] ELSE JsOr3(tf.end, tf.to)

\* start * 1000 on a fixed-point seconds value.
SecToMs(sec) == (sec * 1000) \div SecDen

\* Object.entries(timeframes).forEach(...) throws a TypeError at tf.start when
\* an entry of a mapping is null.
LoadThrows(g) ==
    g.isObject /\ \E i \in 1..Len(g.entries) : g.entries[i].tf.isNull

\* The markers the LOAD_SELECTION_GROUP subscriber builds from a group.
LoadMarkers(g, info) ==
    IF g.isObject
    THEN [i \in 1..Len(g.entries) |->
            Marker(g.id \o "-" \o g.entries[i].label, g.entries[i].label,
                   SecToMs(TfStart(g.entries[i].tf)),
                   SecToMs(TfEnd(g.entries[i].tf)), g.id, info)]
    ELSE <<>>

\* ------------------------------------------------------------------- state
VARIABLES
    markers,            \* useState markers: the live marker store
    originalMarkers,    \* useState originalMarkers: the snapshot
    hasModifications,   \* useState hasModifications: the dirty signal
    selectedMarkerIds,  \* useState selectedMarkerIds
    videoItems,         \* ids of the video items on the timeline canvas
    videoTrackInfo,     \* useState videoTrackInfo: None or Some(videoItemId)
    handlerInfo,        \* videoTrackInfo as closed over by handleObjectRemoved
    mounted,            \* whether the overlay component is mounted
    dragState,          \* dragStateRef.current: None or Some(record)
    listeners,          \* document mousemove/mouseup listeners: None or
                        \* Some(the render values the handlers closed over)
    originalTime,       \* originalTimeRef.current: None or Some(time)
    pauseTimer,         \* pauseTimerRef.current: "none", "pending", "fired"
    lastDragX,          \* lastDragPositionRef.current: None or Some(x)
    originalZoomState,  \* originalZoomStateRef.current: None or Some(record)
    isZoomed,           \* isZoomedRef.current
    zoom,               \* store scale.zoom
    scrollLeft,         \* store scroll.left
    playerTime,         \* the player's current time (getCurrentTime())
    playerPlaying,      \* whether the player is playing
    showSaveDialog,     \* useState showSaveDialog
    inFlight,           \* save requests awaiting their response: the markers
                        \* each handleSave call closed over
    isSequentialPlaying,\* useState isSequentialPlaying
    seqState,           \* sequentialPlayStateRef.current: None or Some(record)
    seqEvent,           \* isPlaying of the last SEQUENTIAL_PLAY_STATE_CHANGED
                        \* dispatched: None or Some(boolean)
    errorToast,         \* the last toast.error of handleSequentialPlay: None
                        \* or Some(message)
    pauseTimeouts,      \* pending 500 ms dwell timeouts, oldest first: the
                        \* session state each callback closed over
    editorScene,        \* stateManager.toJSON(): the editor's scene
    exportQueue,        \* markers of a START_MARKER_EXPORT payload that the
                        \* subscriber's loop has still to process
    renderRequest,      \* None or Some(the design of the last render request)
    submitted,          \* markers of the current START_MARKER_EXPORT payload
                        \* for which a render request was sent, in order
    exportToasts,       \* the toast ("success" or "error") shown for each
                        \* request of that payload that has ended, in order
    timerAge,           \* ms elapsed since the pending pause timer was set
    currentFrame,       \* useCurrentPlayerFrame of the last Timeline render
    playheadFrameRef,   \* playheadFrameRef.current of the Timeline
    trimPreviewState,   \* trimPreviewStateRef.current: isActive and
                        \* frameBeforeTrim (None or Some(frame))
    dragUpdates         \* number of drag updates handled so far

vars ==
    << markers, originalMarkers, hasModifications, selectedMarkerIds,
       videoItems, videoTrackInfo, handlerInfo, mounted, dragState, listeners,
       originalTime, pauseTimer, lastDragX, originalZoomState, isZoomed,
       zoom, scrollLeft, playerTime, playerPlaying, showSaveDialog, inFlight,
       isSequentialPlaying, seqState, seqEvent, errorToast, pauseTimeouts,
       editorScene, exportQueue, renderRequest, submitted, exportToasts,
       timerAge, currentFrame, playheadFrameRef, trimPreviewState,
       dragUpdates >>

storeVars == << markers, originalMarkers, hasModifications >>
videoVars == << videoItems, videoTrackInfo, handlerInfo, mounted >>
dragVars ==
    << dragState, listeners, originalTime, pauseTimer, timerAge, lastDragX,
       dragUpdates >>
zoomVars == << originalZoomState, isZoomed, zoom, scrollLeft >>
playerVars == << playerTime, playerPlaying >>
saveVars == << showSaveDialog, inFlight >>
seqVars ==
    << isSequentialPlaying, seqState, seqEvent, errorToast, pauseTimeouts >>
sliceVars ==
    << editorScene, exportQueue, renderRequest, submitted, exportToasts >>
trimVars == << currentFrame, playheadFrameRef, trimPreviewState >>

\* ------------------------------------------------------------ video track
VideoIds == {"v1", "v2"}
\* obj.top of each video item: v2 lies above v1.
VideoTop(v) == IF v = "v2" THEN 10 ELSE 50

\* videoItems.reduce(...): the item with the smallest top.
TopVideo(items) == CHOOSE v \in items : \A w \in items : VideoTop(v) <= VideoTop(w)

\* updateVideoTrack(): with no video item the markers and the track info are
\* cleared, otherwise the track info is set to the topmost video item.
UpdateVideoTrack(m, items) ==
    IF items = {}
    THEN [markers |-> <<>>, info |-> None]
    ELSE [markers |-> m, info |-> Some(TopVideo(items))]

\* The video-track effect, deps [timeline, markers.length]: it runs again, and
\* handleObjectRemoved is registered again with the videoTrackInfo of that
\* render, only when the number of markers changed.
VideoEffect(oldLen, m, info, handler, items) ==
    IF Len(m) = oldLen
    THEN [markers |-> m, info |-> info, handler |-> handler]
    ELSE LET u == UpdateVideoTrack(m, items) IN
         IF Len(u.markers) = Len(m)
         THEN [markers |-> u.markers, info |-> u.info, handler |-> info]
         ELSE [markers |-> u.markers, info |-> u.info, handler |-> u.info]

\* --------------------------------------------------- modification tracker
\* Modified without the comparison of the two lengths.
ModifiedNoCount(m, o) ==
    IF Len(o) = 0 \/ Len(m) = 0 THEN FALSE
    ELSE \E i \in 1..Len(m) :
            LET k == FindIndex(o, m[i].id) IN
            \/ k = 0
            \/ o[k].startMs # m[i].startMs
            \/ o[k].endMs # m[i].endMs

\* Modified without the comparison of endMs.
ModifiedStartOnly(m, o) ==
    IF Len(o) = 0 \/ Len(m) = 0 THEN FALSE
    ELSE \/ Len(m) # Len(o)
         \/ \E i \in 1..Len(m) :
               LET k == FindIndex(o, m[i].id) IN
               \/ k = 0
               \/ o[k].startMs # m[i].startMs

\* The effect with deps [markers, originalMarkers].
Modified(m, o) ==
    IF Len(o) = 0 \/ Len(m) = 0 THEN FALSE
    ELSE \/ Len(m) # Len(o)
         \/ \E i \in 1..Len(m) :
               LET k == FindIndex(o, m[i].id) IN
               \/ k = 0
               \/ o[k].startMs # m[i].startMs
               \/ o[k].endMs # m[i].endMs

\* The render after a handler that set the markers to m and the snapshot to
\* o, with the effects flushed after it.
Commit(m, o, info, items) ==
    LET ve == VideoEffect(Len(markers), m, info, handlerInfo, items) IN
    /\ markers' = ve.markers
    /\ originalMarkers' = o
    /\ hasModifications' = Modified(ve.markers, o)
    /\ videoTrackInfo' = ve.info
    /\ handlerInfo' = ve.handler
    /\ videoItems' = items
    /\ mounted' = mounted

\* The overlay renders its markers and its save dialog only then.
Rendered == videoTrackInfo # None /\ Len(markers) > 0

\* ------------------------------------------------------------------- load
\* Load appending the new markers to the store instead of replacing it.
LoadAppend(g) ==
    LET newMarkers == LoadMarkers(g, videoTrackInfo) IN
    /\ Commit(markers \o newMarkers, JsonCopy(newMarkers), videoTrackInfo,
              videoItems)
    /\ UNCHANGED << selectedMarkerIds, dragVars, zoomVars, playerVars,
                    saveVars, seqVars, sliceVars, trimVars >>

\* LOAD_SELECTION_GROUP subscriber.  The store and the snapshot are cleared
\* before the entries are converted: when the conversion throws, the two
\* cleared states are what the render sees.
Load(g) ==
    LET newMarkers == LoadMarkers(g, videoTrackInfo) IN
    /\ IF LoadThrows(g)
       THEN Commit(<<>>, <<>>, videoTrackInfo, videoItems)
       ELSE Commit(newMarkers, JsonCopy(newMarkers), videoTrackInfo, videoItems)
    /\ UNCHANGED << selectedMarkerIds, dragVars, zoomVars, playerVars,
                    saveVars, seqVars, sliceVars, trimVars >>

\* ------------------------------------------------------------ drag engine
DragTypes == {"move", "resize-left", "resize-right"}
\* e.clientX at pointer-down, and the positions the pointer moves to.
StartClientX == 4000
ClientXs == {2000, 4000, 6000}
\* The views (scale.zoom, scroll.left) the timeline header and the scrollbars
\* set from outside the overlay.
Views == { <<1, 0>>, <<2, 1000>> }

\* handleMouseDown: the marker is looked up, the playhead time is kept, the
\* drag state is set and the document listeners are attached.
MouseDown(id, type) ==
    /\ Rendered
    /\ listeners = None
    /\ IF FindIndex(markers, id) = 0
       THEN UNCHANGED vars
       ELSE
          /\ LET marker == markers[FindIndex(markers, id)]
                 left == TimeMsToUnits(marker.startMs, zoom) - scrollLeft
                 width == TimeMsToUnits(marker.endMs - marker.startMs, zoom)
             IN /\ originalTime' = Some(playerTime)
                /\ dragState' = Some([markerId |-> id, type |-> type,
                                      startX |-> StartClientX,
                                      startLeft |-> left, startWidth |-> width])
                /\ listeners' = Some([zoom |-> zoom, scrollLeft |-> scrollLeft,
                                      markers |-> markers])
          /\ UNCHANGED << storeVars, videoVars, selectedMarkerIds, pauseTimer,
                          timerAge, lastDragX, dragUpdates, zoomVars,
                          playerVars, saveVars, seqVars, sliceVars, trimVars >>

\* The time the pointer proposes for the dragged edge:
\* unitsToTimeMs(startLeft [+ startWidth] + deltaX + scroll.left, scale.zoom),
\* with the zoom and scroll the handler closed over.
ProposedTime(ds, cl, clientX) ==
    LET deltaX == clientX - ds.startX IN
    IF ds.type = "resize-right"
    THEN UnitsToTimeMs(ds.startLeft + (ds.startWidth + deltaX) + cl.scrollLeft,
                       cl.zoom)
    ELSE UnitsToTimeMs((ds.startLeft + deltaX) + cl.scrollLeft, cl.zoom)

\* MoveClamp without the clamp of the start to 0.
MoveClampNoFloor(marker, prevM, nextM, newStartMs) ==
    LET duration == marker.endMs - marker.startMs
        c1 == IF prevM # None THEN Max(newStartMs, prevM[1].endMs) ELSE newStartMs
        c2 == IF nextM # None THEN Min(c1, nextM[1].startMs - duration) ELSE c1
    IN [marker EXCEPT !.startMs = c2, !.endMs = c2 + duration]

\* The move branch: duration kept, start clamped to 0, to the previous
\* marker's end and to the next marker's start minus the duration.
MoveClamp(marker, prevM, nextM, newStartMs) ==
    LET duration == marker.endMs - marker.startMs
        c0 == Max(0, newStartMs)
        c1 == IF prevM # None THEN Max(c0, prevM[1].endMs) ELSE c0
        c2 == IF nextM # None THEN Min(c1, nextM[1].startMs - duration) ELSE c1
    IN [marker EXCEPT !.startMs = c2, !.endMs = c2 + duration]

\* ResizeLeftClamp without the minimum duration.
ResizeLeftClampNoMin(marker, prevM, nextM, newStartMs) ==
    LET c0 == Max(0, newStartMs)
        c1 == IF prevM # None THEN Max(c0, prevM[1].endMs) ELSE c0
    IN [marker EXCEPT !.startMs = c1]

\* The resize-left branch.
ResizeLeftClamp(marker, prevM, nextM, newStartMs) ==
    LET c0 == Max(0, newStartMs)
        c1 == IF prevM # None THEN Max(c0, prevM[1].endMs) ELSE c0
        finalStartMs == Min(c1, marker.endMs - MinDurationMs)
    IN [marker EXCEPT !.startMs = finalStartMs]

\* ResizeRightClamp without the clamp to the next marker's start.
ResizeRightClampNoNext(marker, prevM, nextM, newEndMs) ==
    [marker EXCEPT !.endMs = Max(marker.startMs + MinDurationMs, newEndMs)]

\* The resize-right branch.
ResizeRightClamp(marker, prevM, nextM, newEndMs) ==
    LET c0 == Max(marker.startMs + MinDurationMs, newEndMs)
        c1 == IF nextM # None THEN Min(c0, nextM[1].startMs) ELSE c0
    IN [marker EXCEPT !.endMs = c1]

DragClamp(type, marker, prevM, nextM, t) ==
    IF type = "move" THEN MoveClamp(marker, prevM, nextM, t)
    ELSE IF type = "resize-left" THEN ResizeLeftClamp(marker, prevM, nextM, t)
    ELSE ResizeRightClamp(marker, prevM, nextM, t)

\* DragUpdate clamping every marker when the dragged id is not in the store.
DragUpdateUnguarded(prev, id, type, t) ==
    LET sortedMarkers == SortByStart(prev)
        currentIndex == FindIndex(sortedMarkers, id)
        prevM == IF currentIndex > 1 THEN Some(sortedMarkers[currentIndex - 1])
                 ELSE None
        nextM == IF currentIndex < Len(sortedMarkers)
                 THEN Some(sortedMarkers[currentIndex + 1]) ELSE None
    IN [i \in 1..Len(prev) |->
          IF prev[i].id # id /\ currentIndex # 0 THEN prev[i]
          ELSE DragClamp(type, prev[i], prevM, nextM, t)]

\* DragUpdate mapping over the sorted copy instead of the store.
DragUpdateSorted(prev, id, type, t) ==
    LET sortedMarkers == SortByStart(prev)
        currentIndex == FindIndex(sortedMarkers, id)
        prevM == IF currentIndex > 1 THEN Some(sortedMarkers[currentIndex - 1])
                 ELSE None
        nextM == IF currentIndex < Len(sortedMarkers)
                 THEN Some(sortedMarkers[currentIndex + 1]) ELSE None
    IN [i \in 1..Len(sortedMarkers) |->
          IF sortedMarkers[i].id # id THEN sortedMarkers[i]
          ELSE DragClamp(type, sortedMarkers[i], prevM, nextM, t)]

\* The setMarkers updater of handleMouseMove: the neighbours are those of the
\* dragged marker in start order, and only the dragged marker is replaced.
DragUpdate(prev, id, type, t) ==
    LET sortedMarkers == SortByStart(prev)
        currentIndex == FindIndex(sortedMarkers, id)
        prevM == IF currentIndex > 1 THEN Some(sortedMarkers[currentIndex - 1])
                 ELSE None
        nextM == IF currentIndex < Len(sortedMarkers)
                 THEN Some(sortedMarkers[currentIndex + 1]) ELSE None
    IN [i \in 1..Len(prev) |->
          IF prev[i].id # id THEN prev[i]
          ELSE DragClamp(type, prev[i], prevM, nextM, t)]

\* previewTime: the edited edge of the clamped marker.
PreviewTime(m, type) == IF type = "resize-right" THEN m.endMs ELSE m.startMs

\* MouseMove leaving the pending pause timer alone when the pointer has moved
\* by more than the threshold.
MouseMoveNoCancel(clientX) ==
    /\ listeners # None
    /\ dragState # None
    /\ dragUpdates < MaxDragUpdates
    /\ dragUpdates' = dragUpdates + 1
    /\ LET ds == dragState[1]
           cl == listeners[1]
           t == ProposedTime(ds, cl, clientX)
           moved == lastDragX # None
                    /\ Abs(clientX - lastDragX[1]) > MoveThresholdPx
           timer1 == pauseTimer
           newMarkers == DragUpdate(markers, ds.markerId, ds.type, t)
           k == FindIndex(newMarkers, ds.markerId)
       IN /\ \A i \in 1..Len(newMarkers) : newMarkers[i].endMs <= MaxTime
          /\ lastDragX' = IF moved \/ lastDragX = None THEN Some(clientX)
                          ELSE lastDragX
          /\ pauseTimer' = IF timer1 = "none" /\ ~isZoomed
                              /\ ds.type \in {"resize-left", "resize-right"}
                           THEN "pending" ELSE timer1
          /\ timerAge' = IF timer1 = "pending" THEN timerAge ELSE 0
          /\ Commit(newMarkers, originalMarkers, videoTrackInfo, videoItems)
          /\ \E eager \in BOOLEAN :
                playerTime' = IF k = 0 \/ ~eager THEN playerTime
                              ELSE RoundToFrame(PreviewTime(newMarkers[k],
                                                            ds.type))
          /\ UNCHANGED << selectedMarkerIds, dragState, listeners, originalTime,
                    zoomVars, playerPlaying, saveVars, seqVars, sliceVars, trimVars >>

\* handleMouseMove.  previewTime is assigned inside the updater passed to
\* setMarkers and read right after the call: the seek is dispatched when
\* React has run the updater by then (eager: the component has no pending
\* update), and not when React runs it at the next render.  The store gets
\* the update in both cases.
MouseMove(clientX) ==
    /\ listeners # None
    /\ dragState # None
    /\ dragUpdates < MaxDragUpdates
    /\ dragUpdates' = dragUpdates + 1
    /\ LET ds == dragState[1]
           cl == listeners[1]
           t == ProposedTime(ds, cl, clientX)
           moved == lastDragX # None
                    /\ Abs(clientX - lastDragX[1]) > MoveThresholdPx
           timer1 == IF moved THEN "none" ELSE pauseTimer
           newMarkers == DragUpdate(markers, ds.markerId, ds.type, t)
           k == FindIndex(newMarkers, ds.markerId)
       IN /\ \A i \in 1..Len(newMarkers) : newMarkers[i].endMs <= MaxTime
          /\ lastDragX' = IF moved \/ lastDragX = None THEN Some(clientX)
                          ELSE lastDragX
          /\ pauseTimer' = IF timer1 = "none" /\ ~isZoomed
                              /\ ds.type \in {"resize-left", "resize-right"}
                           THEN "pending" ELSE timer1
          /\ timerAge' = IF timer1 = "pending" THEN timerAge ELSE 0
          /\ Commit(newMarkers, originalMarkers, videoTrackInfo, videoItems)
          /\ \E eager \in BOOLEAN :
                playerTime' = IF k = 0 \/ ~eager THEN playerTime
                              ELSE RoundToFrame(PreviewTime(newMarkers[k],
                                                            ds.type))
          /\ UNCHANGED << selectedMarkerIds, dragState, listeners, originalTime,
                    zoomVars, playerPlaying, saveVars, seqVars, sliceVars, trimVars >>

\* A mousemove event on the document: it reaches handleMouseMove only while
\* the listener that handleMouseDown attached is still registered.
PointerMove(clientX) ==
    IF listeners = None THEN UNCHANGED vars ELSE MouseMove(clientX)

\* Time passes while the pause timer is pending and no event is handled.
TimePasses ==
    /\ pauseTimer = "pending"
    /\ timerAge < PauseDelayMs
    /\ timerAge' = Min(timerAge + TickMs, PauseDelayMs)
    /\ UNCHANGED << storeVars, videoVars, selectedMarkerIds, dragState,
                    listeners, originalTime, pauseTimer, lastDragX, dragUpdates,
                    zoomVars, playerVars, saveVars, seqVars, sliceVars, trimVars >>

\* The callback of the 2000 ms pause timer set by handleMouseMove: it zooms
\* in by ZoomFactor around the dragged edge, with the scale, scroll and markers
\* the handler closed over.
ZoomTimerFire ==
    /\ pauseTimer = "pending"
    /\ timerAge = PauseDelayMs
    /\ dragState # None /\ listeners # None
    /\ pauseTimer' = "fired"
    /\ timerAge' = 0
    /\ LET ds == dragState[1]
           cl == listeners[1]
           k == FindIndex(cl.markers, ds.markerId)
       IN IF isZoomed
          THEN UNCHANGED zoomVars
          ELSE IF k = 0
          THEN /\ originalZoomState' =
                     Some([zoom |-> cl.zoom, scrollLeft |-> cl.scrollLeft])
               /\ UNCHANGED << isZoomed, zoom, scrollLeft >>
          ELSE LET targetTimeMs == IF ds.type = "resize-right"
                                   THEN cl.markers[k].endMs
                                   ELSE cl.markers[k].startMs
                   maxZoomValue == cl.zoom * ZoomFactor
                   handleScreenPosition ==
                       TimeMsToUnits(targetTimeMs, cl.zoom) - cl.scrollLeft
                   newScrollLeft ==
                       TimeMsToUnits(targetTimeMs, maxZoomValue)
                         - handleScreenPosition
               IN /\ originalZoomState' =
                        Some([zoom |-> cl.zoom, scrollLeft |-> cl.scrollLeft])
                  /\ zoom' = maxZoomValue
                  /\ scrollLeft' = Max(0, newScrollLeft)
                  /\ isZoomed' = TRUE
    /\ UNCHANGED << storeVars, videoVars, selectedMarkerIds, dragState,
                    listeners, originalTime, lastDragX, dragUpdates,
                    playerVars, saveVars, seqVars, sliceVars, trimVars >>

\* MouseUp leaving the drag state and the document listeners in place.
MouseUpKeepsSession ==
    /\ listeners # None
    /\ pauseTimer' = "none"
    /\ timerAge' = 0
    /\ IF dragState # None /\ originalTime # None
       THEN playerTime' = originalTime[1] /\ originalTime' = None
       ELSE UNCHANGED << playerTime, originalTime >>
    /\ lastDragX' = None
    /\ UNCHANGED << storeVars, videoVars, selectedMarkerIds, dragState,
                    listeners, dragUpdates, zoomVars, playerPlaying, saveVars,
                    seqVars, sliceVars, trimVars >>

\* MouseUp without the seek to the time kept at pointer-down.
MouseUpNoRestore ==
    /\ listeners # None
    /\ pauseTimer' = "none"
    /\ timerAge' = 0
    /\ IF isZoomed /\ originalZoomState # None
       THEN /\ zoom' = originalZoomState[1].zoom
            /\ scrollLeft' = originalZoomState[1].scrollLeft
            /\ originalZoomState' = None
            /\ isZoomed' = FALSE
       ELSE UNCHANGED zoomVars
    /\ dragState' = None
    /\ originalTime' = None
    /\ lastDragX' = None
    /\ listeners' = None
    /\ UNCHANGED << storeVars, videoVars, selectedMarkerIds, dragUpdates,
                    playerVars, saveVars, seqVars, sliceVars, trimVars >>

\* handleMouseUp.
MouseUp ==
    /\ listeners # None
    /\ pauseTimer' = "none"
    /\ timerAge' = 0
    /\ IF isZoomed /\ originalZoomState # None
       THEN /\ zoom' = originalZoomState[1].zoom
            /\ scrollLeft' = originalZoomState[1].scrollLeft
            /\ originalZoomState' = None
            /\ isZoomed' = FALSE
       ELSE UNCHANGED zoomVars
    /\ dragState' = None
    /\ IF dragState # None /\ originalTime # None
       THEN playerTime' = originalTime[1] /\ originalTime' = None
       ELSE UNCHANGED << playerTime, originalTime >>
    /\ lastDragX' = None
    /\ listeners' = None
    /\ UNCHANGED << storeVars, videoVars, selectedMarkerIds, dragUpdates,
                    playerPlaying,
                    saveVars, seqVars, sliceVars, trimVars >>

\* The zoom or the horizontal scroll of the store is changed by the timeline
\* header or the scrollbars.
ViewChange(z, s) ==
    /\ << z, s >> # << zoom, scrollLeft >>
    /\ zoom' = z
    /\ scrollLeft' = s
    /\ UNCHANGED << storeVars, videoVars, selectedMarkerIds, dragVars,
                    originalZoomState, isZoomed, playerVars, saveVars, seqVars,
                    sliceVars, trimVars >>

\* ------------------------------------------------------ selection, delete
\* prev.filter((x) => x !== id)
Without(ids, id) == SelectSeq(ids, LAMBDA x : x # id)
Includes(ids, id) == \E i \in 1..Len(ids) : ids[i] = id

\* ToggleSelect destroying the playback session when the selection becomes
\* empty.
ToggleSelectStops(id) ==
    /\ Rendered
    /\ id \in Ids(markers)
    /\ selectedMarkerIds' = IF Includes(selectedMarkerIds, id)
                            THEN Without(selectedMarkerIds, id)
                            ELSE Append(selectedMarkerIds, id)
    /\ IF selectedMarkerIds' = <<>>
       THEN /\ isSequentialPlaying' = FALSE
            /\ seqState' = None
            /\ UNCHANGED << seqEvent, errorToast, pauseTimeouts >>
       ELSE UNCHANGED seqVars
    /\ UNCHANGED << storeVars, videoVars, dragVars, zoomVars, playerVars,
                    saveVars, sliceVars, trimVars >>

\* onClick of a rendered marker: its id is added to or removed from the
\* selection.
ToggleSelect(id) ==
    /\ Rendered
    /\ id \in Ids(markers)
    /\ selectedMarkerIds' = IF Includes(selectedMarkerIds, id)
                            THEN Without(selectedMarkerIds, id)
                            ELSE Append(selectedMarkerIds, id)
    /\ UNCHANGED << storeVars, videoVars, dragVars, zoomVars, playerVars,
                    saveVars, seqVars, sliceVars, trimVars >>

\* DeleteSelected removing only the marker selected first.
DeleteSelectedFirstOnly ==
    /\ Commit(SelectSeq(markers,
                        LAMBDA m : selectedMarkerIds = <<>>
                                   \/ m.id # selectedMarkerIds[1]),
              originalMarkers, videoTrackInfo, videoItems)
    /\ selectedMarkerIds' = <<>>
    /\ UNCHANGED << dragVars, zoomVars, playerVars, saveVars, seqVars,
                    sliceVars, trimVars >>

\* DeleteSelected destroying the playback session as well.
DeleteSelectedStops ==
    /\ Commit(SelectSeq(markers, LAMBDA m : ~Includes(selectedMarkerIds, m.id)),
              originalMarkers, videoTrackInfo, videoItems)
    /\ selectedMarkerIds' = <<>>
    /\ isSequentialPlaying' = FALSE
    /\ seqState' = None
    /\ UNCHANGED << dragVars, zoomVars, playerVars, saveVars, seqEvent,
                    errorToast, pauseTimeouts, sliceVars, trimVars >>

\* DELETE_SELECTED_MARKERS subscriber.
DeleteSelected ==
    /\ Commit(SelectSeq(markers, LAMBDA m : ~Includes(selectedMarkerIds, m.id)),
              originalMarkers, videoTrackInfo, videoItems)
    /\ selectedMarkerIds' = <<>>
    /\ UNCHANGED << dragVars, zoomVars, playerVars, saveVars, seqVars,
                    sliceVars, trimVars >>

\* -------------------------------------------------------------------- save
\* SAVE_SELECTION_GROUP subscriber: the dialog opens only for a dirty,
\* non-empty store.
OpenSaveDialog ==
    /\ Len(markers) > 0 /\ hasModifications
    /\ ~showSaveDialog
    /\ showSaveDialog' = TRUE
    /\ UNCHANGED << storeVars, videoVars, selectedMarkerIds, dragVars, zoomVars,
                    playerVars, inFlight, seqVars, sliceVars, trimVars >>

\* Cancel button or onOpenChange of the dialog.
CloseSaveDialog ==
    /\ showSaveDialog
    /\ showSaveDialog' = FALSE
    /\ UNCHANGED << storeVars, videoVars, selectedMarkerIds, dragVars, zoomVars,
                    playerVars, inFlight, seqVars, sliceVars, trimVars >>

\* handleSave up to its await: the request carries the markers of the render
\* whose Save button was pressed, and the continuation keeps them.
SaveStart ==
    /\ showSaveDialog /\ Rendered
    /\ Len(inFlight) < MaxInFlight
    /\ inFlight' = Append(inFlight, markers)
    /\ UNCHANGED << storeVars, videoVars, selectedMarkerIds, dragVars, zoomVars,
                    playerVars, showSaveDialog, seqVars, sliceVars, trimVars >>

RemoveAt(q, i) == SubSeq(q, 1, i - 1) \o SubSeq(q, i + 1, Len(q))

\* SaveOk taking the snapshot from the live markers instead of the markers the
\* call closed over.
SaveOkCurrent(i) ==
    /\ i \in 1..Len(inFlight)
    /\ Commit(markers, JsonCopy(markers), videoTrackInfo, videoItems)
    /\ showSaveDialog' = FALSE
    /\ inFlight' = RemoveAt(inFlight, i)
    /\ UNCHANGED << selectedMarkerIds, dragVars, zoomVars, playerVars, seqVars,
                    sliceVars, trimVars >>

\* handleSave after an OK response: the snapshot becomes a copy of the markers
\* the call closed over, the dirty flag is cleared and the dialog closed.
SaveOk(i) ==
    /\ i \in 1..Len(inFlight)
    /\ Commit(markers, JsonCopy(inFlight[i]), videoTrackInfo, videoItems)
    /\ showSaveDialog' = FALSE
    /\ inFlight' = RemoveAt(inFlight, i)
    /\ UNCHANGED << selectedMarkerIds, dragVars, zoomVars, playerVars, seqVars,
                    sliceVars, trimVars >>

\* SaveFail clearing the dirty flag as the OK branch does.
SaveFailClearsFlag(i) ==
    /\ i \in 1..Len(inFlight)
    /\ inFlight' = RemoveAt(inFlight, i)
    /\ hasModifications' = FALSE
    /\ UNCHANGED << markers, originalMarkers, videoVars, selectedMarkerIds,
                    dragVars, zoomVars, playerVars, showSaveDialog, seqVars,
                    sliceVars, trimVars >>

\* handleSave after a non-OK response or a thrown fetch: only a toast.
SaveFail(i) ==
    /\ i \in 1..Len(inFlight)
    /\ inFlight' = RemoveAt(inFlight, i)
    /\ UNCHANGED << storeVars, videoVars, selectedMarkerIds, dragVars, zoomVars,
                    playerVars, showSaveDialog, seqVars, sliceVars, trimVars >>

\* marker.startMs / 1000 as a fixed-point seconds value.
MsToSec(ms) == (ms * SecDen) \div 1000

\* The timeframes of handleSave's request body: one {start, end} entry per
\* label, in seconds; a later marker with the same label overwrites the entry.
Persist(ms) ==
    LET keep == SelectSeq([i \in 1..Len(ms) |-> i],
                          LAMBDA i : \A j \in 1..(i - 1) : ms[j].label # ms[i].label)
        Last(l) == CHOOSE k \in 1..Len(ms) :
                      /\ ms[k].label = l
                      /\ \A j \in (k + 1)..Len(ms) : ms[j].label # l
    IN [n \in 1..Len(keep) |->
           LET m == ms[Last(ms[keep[n]].label)] IN
           Entry(m.label, TfStartEnd(MsToSec(m.startMs), MsToSec(m.endMs)))]

\* ------------------------------------------------------- timeline objects
\* A video item is added to the timeline canvas; the overlay listens to no
\* such event.
AddVideo(v) ==
    /\ v \notin videoItems
    /\ videoItems' = videoItems \cup {v}
    /\ UNCHANGED << storeVars, videoTrackInfo, handlerInfo, mounted,
                    selectedMarkerIds, dragVars, zoomVars, playerVars, saveVars,
                    seqVars, sliceVars, trimVars >>

\* A video item is removed from the canvas and handleObjectRemoved runs with
\* the videoTrackInfo it closed over.
RemoveVideo(v) ==
    /\ v \in videoItems
    /\ LET items == videoItems \ {v}
           attached == handlerInfo # None /\ handlerInfo[1] = v
           u == IF attached THEN [markers |-> <<>>, info |-> None]
                ELSE UpdateVideoTrack(markers, items)
       IN Commit(u.markers, originalMarkers, u.info, items)
    /\ UNCHANGED << selectedMarkerIds, dragVars, zoomVars, playerVars, saveVars,
                    seqVars, sliceVars, trimVars >>

\* -------------------------------------------------------- sequential play
\* Array.prototype.findIndex over the 1-based positions S that satisfy the
\* predicate: the 0-based index of the first one, -1 if there is none.
FirstIndex(S) ==
    IF S = {} THEN -1 ELSE (CHOOSE i \in S : \A j \in S : i <= j) - 1

\* StartIndex without the search for the next marker after the current time.
StartIndexNoNext(sortedMarkers, currentTime) ==
    LET inside == FirstIndex({i \in 1..Len(sortedMarkers) :
                     /\ currentTime >= sortedMarkers[i].startMs
                     /\ currentTime <= sortedMarkers[i].endMs})
    IN IF inside # -1 THEN inside ELSE 0

\* startIndex of handleSequentialPlay (0-based): the marker holding the
\* current time, else the next marker after it, else the first marker.
StartIndex(sortedMarkers, currentTime) ==
    LET inside == FirstIndex({i \in 1..Len(sortedMarkers) :
                     /\ currentTime >= sortedMarkers[i].startMs
                     /\ currentTime <= sortedMarkers[i].endMs})
        next == FirstIndex({i \in 1..Len(sortedMarkers) :
                     sortedMarkers[i].startMs > currentTime})
    IN IF inside # -1 THEN inside
       ELSE IF next # -1 THEN next ELSE 0

\* The text of the toast for a trigger without selection.
NoSelectionMessage == "No markers selected. Please select at least one marker."

\* HandleSequentialPlay stopping a session without pausing the player.
HandleSequentialPlayNoPause ==
    /\ UNCHANGED pauseTimeouts
    /\ IF isSequentialPlaying
       THEN /\ isSequentialPlaying' = FALSE
            /\ seqState' = None
            /\ seqEvent' = Some(FALSE)
            /\ UNCHANGED << playerTime, playerPlaying, errorToast >>
       ELSE IF Len(selectedMarkerIds) = 0
       THEN /\ errorToast' = Some(NoSelectionMessage)
            /\ UNCHANGED << isSequentialPlaying, seqState, seqEvent,
                            playerTime, playerPlaying >>
       ELSE LET currentTime == playerTime
                selectedMarkers ==
                    SelectSeq(markers,
                              LAMBDA m : Includes(selectedMarkerIds, m.id))
                sortedMarkers == SortByStart(selectedMarkers)
                startIndex == StartIndex(sortedMarkers, currentTime)
            IN /\ isSequentialPlaying' = TRUE
               /\ seqState' = Some([currentIndex |-> startIndex,
                                    sortedMarkers |-> sortedMarkers,
                                    isPausing |-> FALSE])
               /\ UNCHANGED errorToast
               /\ IF startIndex + 1 \in 1..Len(sortedMarkers)
                  THEN /\ playerTime' = sortedMarkers[startIndex + 1].startMs
                       /\ playerPlaying' = TRUE
                       /\ seqEvent' = Some(TRUE)
                  ELSE UNCHANGED << playerTime, playerPlaying, seqEvent >>
    /\ UNCHANGED << storeVars, videoVars, selectedMarkerIds, dragVars, zoomVars,
                    saveVars, sliceVars, trimVars >>

\* HandleSequentialPlay without the check of the selection.
HandleSequentialPlayNoGuard ==
    /\ UNCHANGED pauseTimeouts
    /\ IF isSequentialPlaying
       THEN /\ isSequentialPlaying' = FALSE
            /\ seqState' = None
            /\ playerPlaying' = FALSE
            /\ seqEvent' = Some(FALSE)
            /\ UNCHANGED << playerTime, errorToast >>
       ELSE LET currentTime == playerTime
                selectedMarkers ==
                    SelectSeq(markers,
                              LAMBDA m : Includes(selectedMarkerIds, m.id))
                sortedMarkers == SortByStart(selectedMarkers)
                startIndex == StartIndex(sortedMarkers, currentTime)
            IN /\ isSequentialPlaying' = TRUE
               /\ seqState' = Some([currentIndex |-> startIndex,
                                    sortedMarkers |-> sortedMarkers,
                                    isPausing |-> FALSE])
               /\ UNCHANGED errorToast
               /\ IF startIndex + 1 \in 1..Len(sortedMarkers)
                  THEN /\ playerTime' = sortedMarkers[startIndex + 1].startMs
                       /\ playerPlaying' = TRUE
                       /\ seqEvent' = Some(TRUE)
                  ELSE UNCHANGED << playerTime, playerPlaying, seqEvent >>
    /\ UNCHANGED << storeVars, videoVars, selectedMarkerIds, dragVars, zoomVars,
                    saveVars, sliceVars, trimVars >>

\* handleSequentialPlay (TRIGGER_SEQUENTIAL_PLAY): a running session is
\* stopped; otherwise a session over the selected markers of the store is
\* started.  With an empty selection the handler only shows a toast.  When no
\* selected id is in the store, sortedMarkers[startIndex] is undefined and the
\* handler throws at marker.startMs, after the session state was set.
HandleSequentialPlay ==
    /\ UNCHANGED pauseTimeouts
    /\ IF isSequentialPlaying
       THEN /\ isSequentialPlaying' = FALSE
            /\ seqState' = None
            /\ playerPlaying' = FALSE
            /\ seqEvent' = Some(FALSE)
            /\ UNCHANGED << playerTime, errorToast >>
       ELSE IF Len(selectedMarkerIds) = 0
       THEN /\ errorToast' = Some(NoSelectionMessage)
            /\ UNCHANGED << isSequentialPlaying, seqState, seqEvent,
                            playerTime, playerPlaying >>
       ELSE LET currentTime == playerTime
                selectedMarkers ==
                    SelectSeq(markers,
                              LAMBDA m : Includes(selectedMarkerIds, m.id))
                sortedMarkers == SortByStart(selectedMarkers)
                startIndex == StartIndex(sortedMarkers, currentTime)
            IN /\ isSequentialPlaying' = TRUE
               /\ seqState' = Some([currentIndex |-> startIndex,
                                    sortedMarkers |-> sortedMarkers,
                                    isPausing |-> FALSE])
               /\ UNCHANGED errorToast
               /\ IF startIndex + 1 \in 1..Len(sortedMarkers)
                  THEN /\ playerTime' = sortedMarkers[startIndex + 1].startMs
                       /\ playerPlaying' = TRUE
                       /\ seqEvent' = Some(TRUE)
                  ELSE UNCHANGED << playerTime, playerPlaying, seqEvent >>
    /\ UNCHANGED << storeVars, videoVars, selectedMarkerIds, dragVars, zoomVars,
                    saveVars, sliceVars, trimVars >>

\* The callback of the 100 ms polling interval, which runs while a session
\* is playing, when the player has reached the end of the current marker and
\* the session is not yet pausing: the player is paused and the 500 ms dwell
\* timeout is set.  On a session without markers the callback throws at
\* currentMarker.endMs.
PollTick ==
    /\ mounted
    /\ isSequentialPlaying /\ seqState # None
    /\ Len(pauseTimeouts) < MaxPendingPauses
    /\ LET state == seqState[1] IN
       /\ state.currentIndex + 1 \in 1..Len(state.sortedMarkers)
       /\ playerTime >= state.sortedMarkers[state.currentIndex + 1].endMs
       /\ ~state.isPausing
       /\ seqState' = Some([state EXCEPT !.isPausing = TRUE])
       /\ playerPlaying' = FALSE
       /\ pauseTimeouts' = Append(pauseTimeouts, state)
    /\ UNCHANGED << storeVars, videoVars, selectedMarkerIds, dragVars, zoomVars,
                    playerTime, saveVars, isSequentialPlaying, seqEvent,
                    errorToast, sliceVars, trimVars >>

\* The callback of the oldest dwell timeout, with the session state its tick
\* closed over: nothing if no session exists; else the session moves to the
\* next marker of that state and the player is sought there and plays; after
\* the last marker the session is destroyed.
PauseTimeout ==
    /\ pauseTimeouts # <<>>
    /\ pauseTimeouts' = Tail(pauseTimeouts)
    /\ LET state == Head(pauseTimeouts)
           nextIndex == state.currentIndex + 1
       IN IF seqState = None
          THEN UNCHANGED << isSequentialPlaying, seqState, seqEvent, playerVars >>
          ELSE IF nextIndex < Len(state.sortedMarkers)
          THEN /\ seqState' = Some([currentIndex |-> nextIndex,
                                    sortedMarkers |-> state.sortedMarkers,
                                    isPausing |-> FALSE])
               /\ playerTime' = state.sortedMarkers[nextIndex + 1].startMs
               /\ playerPlaying' = TRUE
               /\ UNCHANGED << isSequentialPlaying, seqEvent >>
          ELSE /\ isSequentialPlaying' = FALSE
               /\ seqState' = None
               /\ seqEvent' = Some(FALSE)
               /\ UNCHANGED playerVars
    /\ UNCHANGED << storeVars, videoVars, selectedMarkerIds, dragVars, zoomVars,
                    saveVars, errorToast, sliceVars, trimVars >>

\* The overlay component is unmounted: the effect cleanups run, which clear
\* the polling interval and the video-track retry interval and drop the
\* subscriptions.  The refs, the dwell timeouts, the pause timer and the
\* document listeners of a gesture are left as they are.
Unmount ==
    /\ mounted
    /\ mounted' = FALSE
    /\ UNCHANGED << storeVars, videoItems, videoTrackInfo, handlerInfo,
                    selectedMarkerIds, dragVars, zoomVars, playerVars, saveVars,
                    seqVars, sliceVars, trimVars >>

\* The current time of the player changes: playback advances or the user
\* seeks.
PlayTimes == {0, 4500, 7000}
PlayerTimeChange(t) ==
    /\ t # playerTime
    /\ playerTime' = t
    /\ UNCHANGED << storeVars, videoVars, selectedMarkerIds, dragVars, zoomVars,
                    playerPlaying, saveVars, seqVars, sliceVars, trimVars >>

\* ------------------------------------------------- video trim preview
\* A render of the Timeline with the frame the player is at, and the effect
\* that follows it: the playhead frame is recorded unless a trim preview is
\* active.
FrameUpdate ==
    /\ currentFrame # TimeToFrame(playerTime)
    /\ currentFrame' = TimeToFrame(playerTime)
    /\ playheadFrameRef' = IF ~trimPreviewState.isActive THEN currentFrame'
                           ELSE playheadFrameRef
    /\ UNCHANGED << storeVars, videoVars, selectedMarkerIds, dragVars, zoomVars,
                    playerVars, saveVars, seqVars, sliceVars,
                    trimPreviewState >>

\* The events object:resizing carries: the type of the target, the action
\* and the corner of the transform, and the target's left and scaled width
\* in timeline units.
ItemTypes == {"video", "text"}
TransformActions == {"resizing", "drag"}
Corners == {"ml", "mr", "tl"}
TargetLefts == {0, 1000}
TargetWidths == {2030}

\* handleObjectResizing: for the left or right resize of a video item, the
\* first event of a preview records the playhead frame, and every event seeks
\* the player to the frame of the resized edge.
HandleObjectResizing(itemType, action, corner, left, width) ==
    IF itemType # "video" \/ action # "resizing" \/ corner \notin {"ml", "mr"}
    THEN UNCHANGED vars
    ELSE LET edgeUnits == IF corner = "ml" THEN left ELSE left + width
             ms == UnitsToTimeMs(edgeUnits, zoom)
             targetFrame == Max(0, TimeToFrame(ms))
         IN /\ trimPreviewState' =
                  IF ~trimPreviewState.isActive
                  THEN [isActive |-> TRUE,
                        frameBeforeTrim |-> Some(playheadFrameRef)]
                  ELSE trimPreviewState
            /\ playerTime' = FrameToTime(targetFrame)
            /\ UNCHANGED << storeVars, videoVars, selectedMarkerIds, dragVars,
                            zoomVars, playerPlaying, saveVars, seqVars,
                            sliceVars, currentFrame, playheadFrameRef >>

\* stopPreview leaving the player at the frame of the preview.
StopPreviewNoRestore ==
    IF ~trimPreviewState.isActive THEN UNCHANGED vars
    ELSE /\ trimPreviewState' = [isActive |-> FALSE, frameBeforeTrim |-> None]
         /\ UNCHANGED << storeVars, videoVars, selectedMarkerIds, dragVars,
                         zoomVars, playerVars, saveVars, seqVars, sliceVars,
                         currentFrame, playheadFrameRef >>

\* stopPreview, the handler of object:modified and of mouse:up: an active
\* preview is ended, the player is sought to the recorded frame and the
\* record is cleared.
StopPreview ==
    IF ~trimPreviewState.isActive THEN UNCHANGED vars
    ELSE LET frameToRestore == trimPreviewState.frameBeforeTrim IN
         /\ trimPreviewState' = [isActive |-> FALSE, frameBeforeTrim |-> None]
         /\ playerTime' = IF frameToRestore # None
                          THEN FrameToTime(Max(0, frameToRestore[1]))
                          ELSE playerTime
         /\ UNCHANGED << storeVars, videoVars, selectedMarkerIds, dragVars,
                         zoomVars, playerPlaying, saveVars, seqVars, sliceVars,
                         currentFrame, playheadFrameRef >>

\* ----------------------------------------------------------- export slicer
\* A track item of the editor state: display is None or Some of a record of
\* the optional numbers from and to.
Item(display) == [type |-> "video", display |-> display]
Display(from, to) == Some([from |-> from, to |-> to])
SceneEntry(key, item) == [key |-> key, item |-> item]
Track(id, items) == [id |-> id, items |-> items]

\* Scenario D: an item shown from 1000 to 6000, and one from 0 to 1000.
SceneD ==
    [trackItemsMap |-> << SceneEntry("i1", Item(Display(Some(1000), Some(6000)))),
                          SceneEntry("i2", Item(Display(Some(0), Some(1000)))) >>,
     tracks |-> << Track("t1", << "i1", "i2" >>) >>]
\* Items that touch the ends of [3000,5000]; the first has no display.from.
SceneEdge ==
    [trackItemsMap |-> << SceneEntry("i1", Item(Display(None, Some(3000)))),
                          SceneEntry("i2", Item(Display(Some(5000), Some(7000)))) >>,
     tracks |-> << Track("t1", << "i1" >>), Track("t2", << "i2" >>) >>]
\* An item without a display window, and one inside [3000,5000].
SceneBare ==
    [trackItemsMap |-> << SceneEntry("i1", Item(None)),
                          SceneEntry("i2", Item(Display(Some(3500), Some(4500)))) >>,
     tracks |-> << Track("t1", << "i2", "i1" >>) >>]
Scenes == {SceneD, SceneEdge, SceneBare}

\* item.display?.from || 0 and item.display?.to || 0.
ItemStart(item) ==
    IF item.display = None THEN 0 ELSE JsOr3(item.display[1].from, None)
ItemEnd(item) ==
    IF item.display = None THEN 0 ELSE JsOr3(item.display[1].to, None)

\* The overlap test of the slicer.
Overlaps(item, marker) ==
    ItemEnd(item) > marker.startMs /\ ItemStart(item) < marker.endMs

\* SliceWindow without the clamp of the new end to the marker's duration.
SliceWindowNoCeiling(item, marker) ==
    [from |-> Some(Max(0, ItemStart(item) - marker.startMs)),
     to |-> Some(ItemEnd(item) - marker.startMs)]

\* SliceWindow without the floor of 0 on the new start.
SliceWindowNoFloor(item, marker) ==
    [from |-> Some(ItemStart(item) - marker.startMs),
     to |-> Some(Min(marker.endMs - marker.startMs,
                     ItemEnd(item) - marker.startMs))]

\* newFrom and newTo: the item's window relative to the marker's start.
SliceWindow(item, marker) ==
    LET markerDurationMs == marker.endMs - marker.startMs
        newFrom == Max(0, ItemStart(item) - marker.startMs)
        newTo == Min(markerDurationMs, ItemEnd(item) - marker.startMs)
    IN [from |-> Some(newFrom), to |-> Some(newTo)]

\* SliceScene leaving out the tracks that keep no item.
SliceSceneDropsEmptyTracks(editorState, marker) ==
    LET kept == SelectSeq(editorState.trackItemsMap,
                          LAMBDA e : Overlaps(e.item, marker))
        filteredTrackItemIds == [i \in 1..Len(kept) |-> kept[i].key]
        adjustedTracks ==
            [t \in 1..Len(editorState.tracks) |->
                Track(editorState.tracks[t].id,
                      SelectSeq(editorState.tracks[t].items,
                                LAMBDA id : Includes(filteredTrackItemIds, id)))]
    IN [trackItemsMap |->
            [i \in 1..Len(kept) |->
                SceneEntry(kept[i].key,
                    [kept[i].item EXCEPT
                        !.display = Some(SliceWindow(kept[i].item, marker))])],
        trackItemIds |-> filteredTrackItemIds,
        tracks |-> SelectSeq(adjustedTracks, LAMBDA tr : tr.items # <<>>)]

\* markerState: the scene of one marker.  Items outside the marker's range
\* are dropped from the map, from the id list and from every track.
SliceScene(editorState, marker) ==
    LET kept == SelectSeq(editorState.trackItemsMap,
                          LAMBDA e : Overlaps(e.item, marker))
        filteredTrackItemIds == [i \in 1..Len(kept) |-> kept[i].key]
    IN [trackItemsMap |->
            [i \in 1..Len(kept) |->
                SceneEntry(kept[i].key,
                    [kept[i].item EXCEPT
                        !.display = Some(SliceWindow(kept[i].item, marker))])],
        trackItemIds |-> filteredTrackItemIds,
        tracks |->
            [t \in 1..Len(editorState.tracks) |->
                Track(editorState.tracks[t].id,
                      SelectSeq(editorState.tracks[t].items,
                                LAMBDA id : Includes(filteredTrackItemIds, id)))]]

\* markersToExport of handleExportMarkers, as the payload's records.
MarkersToExport(exportAll) ==
    LET chosen == IF exportAll THEN markers
                  ELSE SelectSeq(markers,
                                 LAMBDA m : Includes(selectedMarkerIds, m.id))
    IN [i \in 1..Len(chosen) |->
           [label |-> chosen[i].label, startMs |-> chosen[i].startMs,
            endMs |-> chosen[i].endMs]]

\* handleExportMarkers (EXPORT_ALL_MARKERS, EXPORT_SELECTED_MARKERS) with a
\* non-empty export list: START_MARKER_EXPORT is dispatched and its subscriber
\* runs up to the first await, so the first marker's scene is submitted in
\* the same step.  One export loop runs at a time.
ExportMarkers(exportAll) ==
    /\ exportQueue = <<>>
    /\ Len(exportToasts) = Len(submitted)
    /\ LET payload == MarkersToExport(exportAll) IN
       /\ Len(payload) > 0
       /\ renderRequest' = Some(SliceScene(editorScene, payload[1]))
       /\ submitted' = << payload[1] >>
       /\ exportToasts' = <<>>
       /\ exportQueue' = Tail(payload)
    /\ UNCHANGED << storeVars, videoVars, selectedMarkerIds, dragVars, zoomVars,
                    playerVars, saveVars, seqVars, editorScene, trimVars >>

\* The outcomes of a render request: a response that is ok, a response that
\* is not ok, and a fetch or response.json() that throws.
Outcomes == {"ok", "notOk", "thrown"}

\* The toast shown for a request that ended with the given outcome.
ToastOf(outcome) == IF outcome = "ok" THEN "success" ELSE "error"

\* ExportResponse leaving the loop when a request fails.
ExportResponseAborts(outcome) ==
    /\ Len(exportToasts) < Len(submitted)
    /\ exportToasts' = Append(exportToasts, ToastOf(outcome))
    /\ IF exportQueue # <<>> /\ outcome = "ok"
       THEN /\ renderRequest' = Some(SliceScene(editorScene, Head(exportQueue)))
            /\ submitted' = Append(submitted, Head(exportQueue))
            /\ exportQueue' = Tail(exportQueue)
       ELSE /\ exportQueue' = <<>>
            /\ UNCHANGED << renderRequest, submitted >>
    /\ UNCHANGED << storeVars, videoVars, selectedMarkerIds, dragVars, zoomVars,
                    playerVars, saveVars, seqVars, editorScene, trimVars >>

\* The loop of the START_MARKER_EXPORT subscriber when the request it awaits
\* ends with the given outcome: ok shows a success toast; not ok shows an
\* error toast and continues; thrown is caught inside the loop body and shows
\* an error toast.  In each case the loop goes on: if markers remain, the
\* next one is sliced out of the editor state of that moment and submitted.
ExportResponse(outcome) ==
    /\ Len(exportToasts) < Len(submitted)
    /\ exportToasts' = Append(exportToasts, ToastOf(outcome))
    /\ IF exportQueue # <<>>
       THEN /\ renderRequest' = Some(SliceScene(editorScene, Head(exportQueue)))
            /\ submitted' = Append(submitted, Head(exportQueue))
            /\ exportQueue' = Tail(exportQueue)
       ELSE UNCHANGED << exportQueue, renderRequest, submitted >>
    /\ UNCHANGED << storeVars, videoVars, selectedMarkerIds, dragVars, zoomVars,
                    playerVars, saveVars, seqVars, editorScene, trimVars >>

\* A request ends while markers remain: the next marker is submitted.
ExportNext ==
    \E outcome \in Outcomes : exportQueue # <<>> /\ ExportResponse(outcome)

\* The request of the last marker ends: the loop is over.
ExportLast ==
    \E outcome \in Outcomes : exportQueue = <<>> /\ ExportResponse(outcome)

\* The editor's scene is changed by the editor.
SceneChange(sc) ==
    /\ sc # editorScene
    /\ editorScene' = sc
    /\ UNCHANGED << storeVars, videoVars, selectedMarkerIds, dragVars, zoomVars,
                    playerVars, saveVars, seqVars, exportQueue, renderRequest,
                    submitted, exportToasts, trimVars >>

\* ----------------------------------------------------------- specifications
\* The overlay after mounting on a timeline that holds the video item v1.
Init ==
    /\ markers = <<>>
    /\ originalMarkers = <<>>
    /\ hasModifications = FALSE
    /\ selectedMarkerIds = <<>>
    /\ videoItems = {"v1"}
    /\ videoTrackInfo = Some("v1")
    /\ handlerInfo = None
    /\ mounted = TRUE
    /\ dragState = None
    /\ listeners = None
    /\ originalTime = None
    /\ pauseTimer = "none"
    /\ lastDragX = None
    /\ originalZoomState = None
    /\ isZoomed = FALSE
    /\ zoom = 1
    /\ scrollLeft = 0
    /\ playerTime = 0
    /\ playerPlaying = FALSE
    /\ showSaveDialog = FALSE
    /\ inFlight = <<>>
    /\ isSequentialPlaying = FALSE
    /\ seqState = None
    /\ seqEvent = None
    /\ errorToast = None
    /\ pauseTimeouts = <<>>
    /\ editorScene = SceneD
    /\ exportQueue = <<>>
    /\ renderRequest = None
    /\ submitted = <<>>
    /\ exportToasts = <<>>
    /\ timerAge = 0
    /\ currentFrame = 0
    /\ playheadFrameRef = 0
    /\ trimPreviewState = [isActive |-> FALSE, frameBeforeTrim |-> None]
    /\ dragUpdates = 0

\* Loading groups without malformed entries and dragging, with the
\* pause-to-zoom timer and view changes.
DragGroups == {GroupAB, GroupSolo, GroupShort, GroupArray, GroupCD}
NextDrag ==
    \/ \E g \in DragGroups : listeners = None /\ Load(g)
    \/ \E id \in Ids(markers), type \in DragTypes : MouseDown(id, type)
    \/ \E x \in ClientXs : MouseMove(x)
    \/ TimePasses
    \/ ZoomTimerFire
    \/ MouseUp
    \/ \E v \in Views : ViewChange(v[1], v[2])

SpecDrag == Init /\ [][NextDrag]_vars

\* A selection of at most MaxSelected ids.
Select(id) ==
    /\ Len(selectedMarkerIds) < MaxSelected \/ Includes(selectedMarkerIds, id)
    /\ ToggleSelect(id)

\* The marker store on a timeline whose video item comes and goes: loading,
\* dragging, selecting and deleting.  Buttons are pressed between gestures.
StoreGroups == {GroupAB, GroupShort, GroupArray}
NextStore ==
    \/ \E g \in StoreGroups : listeners = None /\ Load(g)
    \/ \E id \in Ids(markers), type \in DragTypes : MouseDown(id, type)
    \/ \E x \in ClientXs : MouseMove(x)
    \/ MouseUp
    \/ \E id \in Ids(markers) : listeners = None /\ Select(id)
    \/ listeners = None /\ DeleteSelected
    \/ listeners = None /\ AddVideo("v1")
    \/ listeners = None /\ RemoveVideo("v1")

SpecStore == Init /\ [][NextStore]_vars

\* The marker store with its snapshot and the save dialog.  The open dialog
\* is modal: groups are loaded and gestures begun only while it is closed.
\* The responses of save requests arrive at any time.
SaveGroups == {GroupAB, GroupSolo}
NextSave ==
    \/ \E g \in SaveGroups : listeners = None /\ ~showSaveDialog /\ Load(g)
    \/ \E id \in Ids(markers), type \in DragTypes :
          ~showSaveDialog /\ MouseDown(id, type)
    \/ \E x \in ClientXs : MouseMove(x)
    \/ MouseUp
    \/ listeners = None /\ OpenSaveDialog
    \/ listeners = None /\ CloseSaveDialog
    \/ listeners = None /\ SaveStart
    \/ \E i \in 1..Len(inFlight) : SaveOk(i)
    \/ \E i \in 1..Len(inFlight) : SaveFail(i)

SpecSave == Init /\ [][NextSave]_vars

\* Selecting markers and starting or stopping sequential play while the
\* player's time changes.
PlayGroups == {GroupAB, GroupCD}
NextPlay ==
    \/ \E g \in PlayGroups : Load(g)
    \/ \E id \in Ids(markers) : Select(id)
    \/ \E t \in PlayTimes : PlayerTimeChange(t)
    \/ HandleSequentialPlay

SpecPlay == Init /\ [][NextPlay]_vars

\* Exporting all or the selected markers of the store while the editor's
\* scene changes.
ExportGroups == {GroupAB, GroupShort}
NextExport ==
    \/ \E g \in ExportGroups : Load(g)
    \/ \E id \in Ids(markers) : Select(id)
    \/ \E exportAll \in BOOLEAN : ExportMarkers(exportAll)
    \/ ExportNext
    \/ ExportLast
    \/ \E sc \in Scenes : SceneChange(sc)

SpecExport == Init /\ [][NextExport]_vars

\* ------------------------------------------------------------------ claims
\* No two markers overlap: the earlier one ends before the later one starts.
NonOverlap(ms) ==
    \A i, j \in 1..Len(ms) :
        ms[i].startMs < ms[j].startMs => ms[i].endMs <= ms[j].startMs

\* Every marker is at least MinDurationMs long.
MinDurationHolds(ms) ==
    \A i \in 1..Len(ms) : ms[i].endMs - ms[i].startMs >= MinDurationMs

\* A step that is a drag update (handleMouseMove on a live drag session).
DragStep == dragUpdates' = dragUpdates + 1

\* The marker of the store the gesture is about; 0 when it is not there.
Dragged == IF dragState = None THEN 0 ELSE FindIndex(markers, dragState[1].markerId)

\* The start of the nearest marker starting after marker k, if any.
RightNeighbourStart(ms, k) ==
    LET later == {ms[j].startMs : j \in {i \in 1..Len(ms) : ms[i].startMs > ms[k].startMs}}
    IN IF later = {} THEN None
       ELSE Some(CHOOSE s \in later : \A u \in later : s <= u)

\* C1: dragging preserves non-overlap: every drag update (move, resize-left,
\* resize-right, at any zoom and scroll, also around an auto-zoom) of a store
\* without overlaps leaves it without overlaps.
C1_DragKeepsNonOverlap ==
    [][(NonOverlap(markers) /\ DragStep) => NonOverlap(markers')]_vars

\* C3: a resize-right update sets endMs to the proposed end clamped into
\* [startMs + 100, next marker's startMs], with no upper bound without a right
\* neighbour, and leaves startMs unchanged.
C3_ResizeRightClamps ==
    [][\A x \in ClientXs :
          (MouseMove(x) /\ dragState[1].type = "resize-right" /\ Dragged # 0) =>
             LET k == Dragged
                 p == ProposedTime(dragState[1], listeners[1], x)
                 lo == markers[k].startMs + MinDurationMs
                 hi == RightNeighbourStart(markers, k)
             IN /\ markers'[k].startMs = markers[k].startMs
                /\ markers'[k].endMs =
                      IF hi = None THEN Max(lo, p) ELSE Min(Max(lo, p), hi[1])]_vars

\* C3 witness (scenario A): resize-right on A of A:[0,2000], B:[3000,5000]
\* with the pointer proposing 4000 ended at B's start, 3000.
C3_Witness ==
    /\ dragState # None /\ dragState[1].type = "resize-right"
    /\ dragState[1].markerId = "g1-A"
    /\ listeners[1].zoom = 1 /\ listeners[1].markers[1].endMs = 2000
    /\ lastDragX = Some(6000) /\ dragUpdates = 1
    /\ Len(markers) = 2
    /\ markers[1].startMs = 0 /\ markers[1].endMs = 3000
    /\ markers[2].startMs = 3000

\* C4: a move update keeps the marker's duration, and moves a marker that has
\* no neighbours and is proposed a negative start to [0, duration].
C4_MoveKeepsDuration ==
    [][\A x \in ClientXs :
          (MouseMove(x) /\ dragState[1].type = "move" /\ Dragged # 0) =>
             LET k == Dragged
                 p == ProposedTime(dragState[1], listeners[1], x)
                 duration == markers[k].endMs - markers[k].startMs
             IN /\ markers'[k].endMs - markers'[k].startMs = duration
                /\ (Len(markers) = 1 /\ p < 0) =>
                      (markers'[k].startMs = 0 /\ markers'[k].endMs = duration)]_vars

\* C4 witness (scenario B): A:[1000,3000], alone in the store, was moved to a
\* proposed start of -1000 and lies at [0,2000].
C4_Witness ==
    /\ dragState # None /\ dragState[1].type = "move"
    /\ dragState[1].markerId = "g2-A"
    /\ listeners[1].zoom = 1 /\ listeners[1].markers[1].startMs = 1000
    /\ lastDragX = Some(2000) /\ dragUpdates = 1
    /\ markers = << Marker("g2-A", "A", 0, 2000, "g2", Some("v1")) >>

\* --------------------------------------------------------- claims C2, C7, C10
\* Any two markers are disjoint: one ends before, or when, the other starts.
Disjoint(ms) ==
    \A i, j \in 1..Len(ms) :
        i # j => (ms[i].endMs <= ms[j].startMs \/ ms[j].endMs <= ms[i].startMs)

\* A step that is a load of a group.
LoadStep == \E g \in Groups : Load(g)

\* C2 as stated: in every reachable state of the store every marker is at
\* least 100 ms long.
C2_MinDurationAlways == MinDurationHolds(markers)

\* C2 as amended: every step other than a load (drag update, delete) of a
\* store whose markers are pairwise disjoint and at least 100 ms long leaves
\* every marker at least 100 ms long.
C2_MinDurationKept ==
    [][(Disjoint(markers) /\ MinDurationHolds(markers) /\ ~LoadStep)
          => MinDurationHolds(markers')]_vars

\* C2 witness: resize-left on B of A:[0,2000], B:[3000,5000] was proposed
\* B's end and stopped 100 ms before it.
C2_Witness ==
    /\ dragState # None /\ dragState[1].type = "resize-left"
    /\ dragState[1].markerId = "g1-B"
    /\ dragUpdates > 0
    /\ Len(markers) = 2
    /\ markers[1].endMs = 2000
    /\ markers[2].startMs = 4900 /\ markers[2].endMs = 5000

\* Some live marker has no snapshot marker with its id, its startMs and its
\* endMs.
SomeMarkerDiffers(m, o) ==
    \E i \in 1..Len(m) :
        ~ \E k \in 1..Len(o) :
              /\ o[k].id = m[i].id
              /\ o[k].startMs = m[i].startMs
              /\ o[k].endMs = m[i].endMs

\* C7 as stated: the dirty signal is true exactly when the numbers of live
\* and snapshot markers differ or some live marker has another startMs or
\* endMs than the snapshot marker with its id.
C7_DirtyIffCountOrTimesDiffer ==
    hasModifications =
       \/ Len(markers) # Len(originalMarkers)
       \/ \E i \in 1..Len(markers), k \in 1..Len(originalMarkers) :
             /\ originalMarkers[k].id = markers[i].id
             /\ \/ originalMarkers[k].startMs # markers[i].startMs
                \/ originalMarkers[k].endMs # markers[i].endMs

\* C7 as amended: the dirty signal is true exactly when the live store and
\* the snapshot are both non-empty and either their numbers of markers differ
\* or some live marker is missing from the snapshot or has another startMs or
\* endMs there.
C7_DirtyIffNonEmptyAndDiffers ==
    hasModifications =
       /\ Len(markers) > 0
       /\ Len(originalMarkers) > 0
       /\ \/ Len(markers) # Len(originalMarkers)
          \/ SomeMarkerDiffers(markers, originalMarkers)

\* C7 witness: one of the two markers of a loaded group was deleted, nothing
\* else differs from the snapshot, and the store is dirty.
C7_Witness ==
    /\ Len(markers) = 1 /\ Len(originalMarkers) = 2
    /\ ~SomeMarkerDiffers(markers, originalMarkers)
    /\ hasModifications

\* Every interval of the group has the {start, end} shape.
IsStartEndMapping(g) ==
    /\ g.isObject
    /\ \A i \in 1..Len(g.entries) :
          /\ ~g.entries[i].tf.isArray
          /\ g.entries[i].tf.start # None /\ g.entries[i].tf.end # None

\* The store ms holds exactly one marker per entry of g, with the id, the
\* label and, in ms, the start and end of that entry.
HoldsGroup(ms, g) ==
    /\ Len(ms) = Len(g.entries)
    /\ \A i \in 1..Len(g.entries) :
          /\ ms[i].id = g.id \o "-" \o g.entries[i].label
          /\ ms[i].label = g.entries[i].label
          /\ ms[i].groupId = g.id
          /\ ms[i].startMs * SecDen = g.entries[i].tf.start[1] * 1000
          /\ ms[i].endMs * SecDen = g.entries[i].tf.end[1] * 1000

\* C10 as stated: after a load of a label-to-{start,end} mapping, whatever
\* the state before, the store holds exactly the group's markers, the snapshot
\* equals the store and the store is clean.
C10_LoadReplacesStore ==
    [][\A g \in Groups :
          (IsStartEndMapping(g) /\ Load(g)) =>
             /\ HoldsGroup(markers', g)
             /\ originalMarkers' = markers'
             /\ ~hasModifications']_vars

\* C10 as amended: the same, for a load while a video item is on the
\* timeline.
C10_LoadReplacesStoreOnVideo ==
    [][\A g \in Groups :
          (IsStartEndMapping(g) /\ videoItems # {} /\ Load(g)) =>
             /\ HoldsGroup(markers', g)
             /\ originalMarkers' = markers'
             /\ ~hasModifications']_vars

\* C10 witness: the group A:[0,2000], B:[3000,5000] was loaded over a store
\* that held another group, one of whose markers is still selected.
C10_Witness ==
    /\ Includes(selectedMarkerIds, "g3-A")
    /\ HoldsGroup(markers, GroupAB)
    /\ originalMarkers = markers
    /\ ~hasModifications

\* ------------------------------------------------------------- claims C8, C9
\* A step that is the OK response to a save request.
SaveOkStep == \E i \in 1..Len(inFlight) : SaveOk(i)

\* A drag update that changes a marker's startMs or endMs.
EditStep == DragStep /\ markers' # markers

\* C8 as stated: a load leaves the store clean, a successful save of unedited
\* markers leaves it clean, every edit makes it dirty, and a dirty store stays
\* dirty until the next save (or load).
C8_DirtyUntilSave ==
    [][/\ LoadStep => ~hasModifications'
       /\ \A i \in 1..Len(inFlight) :
             (SaveOk(i) /\ inFlight[i] = markers) => ~hasModifications'
       /\ EditStep => hasModifications'
       /\ (hasModifications /\ ~SaveOkStep /\ ~LoadStep) => hasModifications'
      ]_vars

\* C8 as amended: a load leaves the store clean, a successful save of unedited
\* markers leaves it clean, and after a drag update the store is dirty exactly
\* when it differs from the snapshot: an edit that puts the marker back to its
\* snapshot position cleans the store without a save.
C8_DirtyWhileDifferent ==
    [][/\ LoadStep => ~hasModifications'
       /\ \A i \in 1..Len(inFlight) :
             (SaveOk(i) /\ inFlight[i] = markers) => ~hasModifications'
       /\ DragStep =>
             (hasModifications' <=>
                 \/ Len(markers') # Len(originalMarkers')
                 \/ SomeMarkerDiffers(markers', originalMarkers'))
      ]_vars

\* C8 witness: the first drag update of a gesture on a clean store changed a
\* marker, and the store is dirty.
C8_Witness ==
    /\ dragState # None /\ dragUpdates = 1
    /\ inFlight = <<>>
    /\ Len(markers) = Len(originalMarkers)
    /\ SomeMarkerDiffers(markers, originalMarkers)
    /\ hasModifications

WindowFrom(item) ==
    IF item.display # None /\ item.display[1].from # None
    THEN item.display[1].from[1] ELSE 0
WindowTo(item) ==
    IF item.display # None /\ item.display[1].to # None
    THEN item.display[1].to[1] ELSE 0

\* The items of a scene, as a set of (key, item) entries.
EntriesOf(scene) ==
    {scene.trackItemsMap[i] : i \in 1..Len(scene.trackItemsMap)}

\* out keeps exactly the items of scene whose window meets the marker's
\* interval, each with its window rebased to the marker's start and cut to
\* the marker's duration.
SlicedFor(scene, marker, out) ==
    /\ \A e \in EntriesOf(scene) :
          LET from == WindowFrom(e.item)
              to == WindowTo(e.item)
              kept == {o \in EntriesOf(out) : o.key = e.key}
          IN IF to > marker.startMs /\ from < marker.endMs
             THEN /\ Cardinality(kept) = 1
                  /\ \A o \in kept :
                        o.item.display =
                           Display(Some(Max(0, from - marker.startMs)),
                                   Some(Min(marker.endMs - marker.startMs,
                                            to - marker.startMs)))
             ELSE kept = {}
    /\ \A o \in EntriesOf(out) : \E e \in EntriesOf(scene) : e.key = o.key

\* C5: the scene submitted for a marker keeps an item exactly when
\* item.to > marker.startMs and item.from < marker.endMs, with the window
\* from' = max(0, item.from - marker.startMs),
\* to' = min(marker.endMs - marker.startMs, item.to - marker.startMs).
C5_SliceKeepsAndRebases ==
    [][/\ \A exportAll \in BOOLEAN :
             ExportMarkers(exportAll) =>
                SlicedFor(editorScene, MarkersToExport(exportAll)[1],
                          renderRequest'[1])
       /\ ExportNext =>
             SlicedFor(editorScene, Head(exportQueue), renderRequest'[1])
      ]_vars

\* C5 witness (scenario D): of the items {1000,6000} and {0,1000}, the scene
\* submitted for the marker [3000,5000] holds only the first, as {0,2000}.
C5_Witness ==
    /\ renderRequest # None
    /\ renderRequest[1].trackItemsMap =
          << SceneEntry("i1", Item(Display(Some(0), Some(2000)))) >>
    /\ renderRequest[1].trackItemIds = << "i1" >>
    /\ renderRequest[1].tracks = << Track("t1", << "i1" >>) >>

\* --------------------------------------------------------------- claim C6
\* The selected markers of the store.
SelectedMarkers ==
    {markers[k] : k \in {i \in 1..Len(markers) :
                            Includes(selectedMarkerIds, markers[i].id)}}

\* C6: when sequential play starts with at least one selected marker in the
\* store, the session holds the selected markers in start order, its index is
\* that of the first marker holding the current time, else of the first marker
\* starting after it, else of the first marker, and the player is sought to
\* that marker's start and plays.
C6_PlayStartsAtCurrentOrNext ==
    [][(HandleSequentialPlay /\ ~isSequentialPlaying /\ SelectedMarkers # {}) =>
          LET sorted == seqState'[1].sortedMarkers
              n == Len(sorted)
              i == seqState'[1].currentIndex + 1
              t == playerTime
              Holds(j) == sorted[j].startMs <= t /\ t <= sorted[j].endMs
              After(j) == sorted[j].startMs > t
          IN /\ {sorted[j] : j \in 1..n} = SelectedMarkers
             /\ n = Cardinality(SelectedMarkers)
             /\ \A j \in 1..(n - 1) : sorted[j].startMs <= sorted[j + 1].startMs
             /\ i \in 1..n
             /\ IF \E j \in 1..n : Holds(j)
                THEN Holds(i) /\ \A j \in 1..(i - 1) : ~Holds(j)
                ELSE IF \E j \in 1..n : After(j)
                THEN After(i) /\ \A j \in 1..(i - 1) : ~After(j)
                ELSE i = 1
             /\ isSequentialPlaying'
             /\ playerTime' = sorted[i].startMs
             /\ playerPlaying']_vars

\* C6 witness (scenario C): with [2000,4000] and [5000,6000] selected, play
\* was started at a time between them: the session stands at the second
\* marker and the player at its start.
C6_Witness ==
    /\ isSequentialPlaying /\ seqState # None
    /\ Len(seqState[1].sortedMarkers) = 2
    /\ seqState[1].sortedMarkers[1].startMs = 2000
    /\ seqState[1].sortedMarkers[1].endMs = 4000
    /\ seqState[1].sortedMarkers[2].startMs = 5000
    /\ seqState[1].sortedMarkers[2].endMs = 6000
    /\ seqState[1].currentIndex = 1
    /\ playerTime = 5000 /\ playerPlaying

\* ------------------------------------------------- claims C11, C12, C13, C14
\* Loading groups of every persisted shape, also malformed ones, on a timeline
\* whose video items come and go; selecting and deleting.
NextLoad ==
    \/ \E g \in Groups : Load(g)
    \/ \E id \in Ids(markers) : Select(id)
    \/ DeleteSelected
    \/ \E v \in VideoIds : AddVideo(v)
    \/ \E v \in VideoIds : RemoveVideo(v)

SpecLoad == Init /\ [][NextLoad]_vars

\* The entry is an interval in one of the three accepted shapes.
ValidTf(tf) ==
    /\ ~tf.isNull
    /\ \/ tf.isArray /\ Len(tf.pair) = 2
       \/ tf.start # None /\ tf.end # None
       \/ tf.from # None /\ tf.to # None

\* Start and end, in fixed-point seconds, of a valid entry.
ValidStart(tf) ==
    IF tf.isArray THEN tf.pair[1]
    ELSE IF tf.start # None THEN tf.start[1] ELSE tf.from[1]
ValidEnd(tf) ==
    IF tf.isArray THEN tf.pair[2]
    ELSE IF tf.end # None THEN tf.end[1] ELSE tf.to[1]

\* The valid entries of a group, in their order.
ValidEntries(g) == SelectSeq(g.entries, LAMBDA e : ValidTf(e.tf))

\* The store ms holds exactly one marker per valid entry of g, in the entries'
\* order, with the entry's start and end in ms.
HoldsValidEntries(ms, g) ==
    LET valid == ValidEntries(g) IN
    /\ Len(ms) = Len(valid)
    /\ \A i \in 1..Len(valid) :
          /\ ms[i].startMs * SecDen = ValidStart(valid[i].tf) * 1000
          /\ ms[i].endMs * SecDen = ValidEnd(valid[i].tf) * 1000

\* C11: a load of a group whose timeframes is an array of [start, end] pairs,
\* while a video item is on the timeline, leaves one marker per pair in the
\* store, with the pair's start and end in ms.
C11_LoadAcceptsArray ==
    [][\A g \in Groups :
          (~g.isObject /\ videoItems # {} /\ Load(g)) =>
             HoldsValidEntries(markers', g)]_vars

\* C12: a load of a mapping with a malformed entry among valid ones, while a
\* video item is on the timeline, leaves in the store exactly the markers of
\* the valid entries.
C12_LoadSkipsMalformed ==
    [][\A g \in Groups :
          (/\ g.isObject
           /\ \E i \in 1..Len(g.entries) : ~ValidTf(g.entries[i].tf)
           /\ \E i \in 1..Len(g.entries) : ValidTf(g.entries[i].tf)
           /\ videoItems # {}
           /\ Load(g)) =>
             HoldsValidEntries(markers', g)]_vars

\* Every entry of the group is an interval in one of the accepted shapes.
ValidGroup(g) == \A i \in 1..Len(g.entries) : ValidTf(g.entries[i].tf)

\* The persisted entries p give, for each label of g, the start and end of
\* g's entry within 1 ms, and have no other label.
SameIntervals(p, g) ==
    /\ Len(p) = Len(g.entries)
    /\ \A i \in 1..Len(g.entries) :
          \E k \in 1..Len(p) :
             /\ p[k].label = g.entries[i].label
             /\ Abs(p[k].tf.start[1] - ValidStart(g.entries[i].tf)) * 1000 <= SecDen
             /\ Abs(p[k].tf.end[1] - ValidEnd(g.entries[i].tf)) * 1000 <= SecDen

\* Loading the persisted form of the markers ms gives, for each label, the
\* startMs and endMs of ms.
ReloadsSame(ms) ==
    LET again == LoadMarkers([id |-> "saved", isObject |-> TRUE,
                              entries |-> Persist(ms)], None)
    IN /\ Len(again) = Len(ms)
       /\ \A i \in 1..Len(ms) :
             \E k \in 1..Len(again) :
                /\ again[k].label = ms[i].label
                /\ again[k].startMs = ms[i].startMs
                /\ again[k].endMs = ms[i].endMs

\* C13: for every valid timeframes value x, mapping or array, the persisted
\* form of the markers a load of x leaves in the store has, for each label,
\* the start and end of x within 1 ms; and loading the persisted form of the
\* store reproduces the store's startMs and endMs per label.
C13_RoundTrip ==
    [][/\ \A g \in Groups :
             (ValidGroup(g) /\ videoItems # {} /\ Load(g)) =>
                SameIntervals(Persist(markers'), g)
       /\ ReloadsSame(markers')]_vars

\* The video item v is the one the markers are anchored to: the track info
\* and every marker of the store record its id.
AnchoredTo(v) ==
    /\ markers # <<>>
    /\ videoTrackInfo = Some(v)
    /\ \A i \in 1..Len(markers) : markers[i].videoItemId = Some(v)

\* C14: whenever the video item the markers are anchored to is removed from
\* the timeline, whether or not other video items remain, the store is
\* cleared.
C14_RemovalClearsStore ==
    [][\A v \in VideoIds :
          (AnchoredTo(v) /\ RemoveVideo(v)) => markers' = <<>>]_vars

\* ------------------------------------------------- claims C15, C16, C17
\* An id that no marker of any group has.
UnknownId == "g0-X"

\* Gestures on the markers of a loaded group while the player's time changes
\* and the selected markers are deleted, also in the middle of a gesture;
\* pointer moves arrive with and without a gesture.
NextGesture ==
    \/ listeners = None /\ Load(GroupAB)
    \/ \E id \in Ids(markers) \cup {UnknownId}, type \in DragTypes :
          MouseDown(id, type)
    \/ \E x \in ClientXs : PointerMove(x)
    \/ MouseUp
    \/ \E id \in Ids(markers) : listeners = None /\ Select(id)
    \/ DeleteSelected
    \/ \E t \in PlayTimes : PlayerTimeChange(t)

SpecGesture == Init /\ [][NextGesture]_vars

\* C15: pointer-down keeps the player's time of that moment, no step of the
\* gesture changes the kept time, and pointer-up seeks the player to it: the
\* last seek of every gesture is to the time captured at pointer-down.
C15_GestureRestoresTime ==
    [][/\ (dragState = None /\ dragState' # None)
             => originalTime' = Some(playerTime)
       /\ (dragState # None /\ dragState' # None)
             => originalTime' = originalTime
       /\ (dragState # None /\ MouseUp)
             => (originalTime # None /\ playerTime' = originalTime[1])]_vars

\* C15 witness: a gesture begun at playback time 4500 moved a marker (its
\* drag update sought the player elsewhere) and has ended: the player is back
\* at 4500.
C15_Witness ==
    /\ dragState = None /\ listeners = None
    /\ dragUpdates > 0
    /\ hasModifications
    /\ playerTime = 4500

\* C16: a drag session exists exactly while the document listeners are
\* registered; pointer-up ends both; and a pointer move that arrives while no
\* gesture is in progress changes nothing.
C16_SessionEndsAtPointerUp ==
    [][/\ (dragState' = None) <=> (listeners' = None)
       /\ MouseUp => (dragState' = None /\ listeners' = None)
       /\ \A x \in ClientXs :
             (dragState = None /\ PointerMove(x)) => UNCHANGED vars]_vars

\* C16 witness: a gesture that changed a marker has ended with fewer than
\* MaxDragUpdates updates, so a further pointer move is handled in this state.
C16_Witness ==
    /\ dragState = None /\ listeners = None
    /\ dragUpdates = 1
    /\ hasModifications

\* C17: pointer-down on an id that is not in the store changes nothing, and a
\* drag update whose marker is no longer in the store leaves the store, the
\* snapshot, the dirty signal and the player's time unchanged.
C17_UnknownMarkerNoOp ==
    [][/\ \A type \in DragTypes :
             MouseDown(UnknownId, type) => UNCHANGED vars
       /\ \A x \in ClientXs :
             (MouseMove(x) /\ Dragged = 0) =>
                UNCHANGED << storeVars, playerTime >>]_vars

\* C17 witness: the dragged marker was deleted in the middle of the gesture,
\* a drag update was handled after that, and the other marker of the group is
\* still where it was loaded.
C17_Witness ==
    /\ dragState # None /\ Dragged = 0
    /\ dragUpdates > 0
    /\ lastDragX # None
    /\ originalTime = Some(playerTime)
    /\ Len(markers) = 1
    /\ ~SomeMarkerDiffers(markers, originalMarkers)

\* ------------------------------------------------- claims C18, C19, C20
\* Sequential play over the selected markers with its polling interval and
\* dwell timeouts, while the player's time changes and markers are selected,
\* deleted and loaded.
SessionGroups == {GroupCD, GroupSolo}
NextSession ==
    \/ \E g \in SessionGroups : Load(g)
    \/ \E id \in Ids(markers) : Select(id)
    \/ DeleteSelected
    \/ \E t \in PlayTimes : PlayerTimeChange(t)
    \/ HandleSequentialPlay
    \/ PollTick
    \/ PauseTimeout

SpecSession == Init /\ [][NextSession]_vars

\* The same with one gesture, begun while a session is active, that drags a
\* marker to the left.  Buttons are pressed and the player's time is changed
\* between gestures; the interval and the timeouts also fire during one.
\* The trigger is pressed with a selection or to stop a session.
NextSessionEdit ==
    \/ \E g \in SessionGroups : listeners = None /\ Load(g)
    \/ \E id \in Ids(markers) : listeners = None /\ Select(id)
    \/ listeners = None /\ DeleteSelected
    \/ \E id \in Ids(markers), type \in DragTypes :
          isSequentialPlaying /\ dragUpdates = 0 /\ MouseDown(id, type)
    \/ MouseMove(2000)
    \/ MouseUp
    \/ \E t \in PlayTimes : listeners = None /\ PlayerTimeChange(t)
    \/ /\ listeners = None
       /\ isSequentialPlaying \/ selectedMarkerIds # <<>>
       /\ HandleSequentialPlay
    \/ PollTick
    \/ PauseTimeout

SpecSessionEdit == Init /\ [][NextSessionEdit]_vars

\* C18: TRIGGER_SEQUENTIAL_PLAY while a session is playing destroys the
\* session, pauses the player and emits
\* SEQUENTIAL_PLAY_STATE_CHANGED{isPlaying: false}; no session is started.
C18_TriggerTogglesOff ==
    [][(isSequentialPlaying /\ HandleSequentialPlay) =>
          /\ ~isSequentialPlaying'
          /\ seqState' = None
          /\ ~playerPlaying'
          /\ playerTime' = playerTime
          /\ seqEvent' = Some(FALSE)]_vars

\* C18 witness: a session that had sought the player to the start of
\* D:[5000,6000] was stopped by the trigger: the player is paused at 5000, a
\* time only a session's seek leads to, and no session exists.
C18_Witness ==
    /\ ~isSequentialPlaying /\ seqState = None
    /\ seqEvent = Some(FALSE)
    /\ playerTime = 5000 /\ ~playerPlaying

\* C19: a step that changes the selection or the markers of the store while
\* a session is active (select, drag update, delete, load) leaves the session
\* active, with the same list of intervals, the same index and the same
\* pending dwell.
C19_SessionListIsSnapshot ==
    [][(/\ isSequentialPlaying
        /\ selectedMarkerIds' # selectedMarkerIds \/ markers' # markers) =>
          UNCHANGED << isSequentialPlaying, seqState, pauseTimeouts >>]_vars

\* C19 witness: an active session plays two intervals, one of a marker that
\* has been dragged since: the store holds it with other times.
C19_Witness ==
    /\ isSequentialPlaying /\ seqState # None
    /\ Len(seqState[1].sortedMarkers) = 2
    /\ \E j \in 1..2, i \in 1..Len(markers) :
          /\ markers[i].id = seqState[1].sortedMarkers[j].id
          /\ markers[i] # seqState[1].sortedMarkers[j]

C21_StoppedTimersAreDead ==
    [][(/\ PauseTimeout
        /\ seqState # None
        /\ ~seqState[1].isPausing) =>
          UNCHANGED << isSequentialPlaying, seqState, seqEvent,
                       playerTime, playerPlaying >>]_vars

\* C22: TRIGGER_SEQUENTIAL_PLAY with no session playing and an empty selection
\* shows the error toast and changes nothing else: no session is created,
\* isSequentialPlaying stays false, the player is neither sought, played nor
\* paused, and no SEQUENTIAL_PLAY_STATE_CHANGED is emitted.
C22_NoSelectionOnlyToast ==
    [][(/\ ~isSequentialPlaying
        /\ selectedMarkerIds = <<>>
        /\ HandleSequentialPlay) =>
          /\ errorToast' = Some(NoSelectionMessage)
          /\ ~isSequentialPlaying'
          /\ UNCHANGED << storeVars, videoVars, selectedMarkerIds, dragVars,
                          zoomVars, playerVars, saveVars, isSequentialPlaying,
                          seqState, seqEvent, pauseTimeouts, sliceVars, trimVars >>]_vars

\* C22 witness: markers are loaded, the trigger has shown the error toast, and
\* no session was ever started: no signal was emitted and the player rests.
C22_Witness ==
    /\ errorToast = Some(NoSelectionMessage)
    /\ markers # <<>> /\ selectedMarkerIds = <<>>
    /\ ~isSequentialPlaying /\ seqState = None
    /\ seqEvent = None /\ ~playerPlaying

\* C23: the export loop attempts one render request per marker of the
\* payload, in payload order, whatever the outcome of the earlier requests:
\* START_MARKER_EXPORT submits the first marker and leaves the others
\* pending; the end of a request, be it ok, not ok or thrown, submits the
\* first pending marker and leaves the ones after it pending; and nothing else
\* submits a marker or drops a pending one.
C23_OneSubmissionPerMarker ==
    [][/\ \A exportAll \in BOOLEAN : ExportMarkers(exportAll) =>
             /\ submitted' = << MarkersToExport(exportAll)[1] >>
             /\ exportQueue' = Tail(MarkersToExport(exportAll))
       /\ \A outcome \in Outcomes :
             (ExportResponse(outcome) /\ exportQueue # <<>>) =>
                /\ submitted' = Append(submitted, Head(exportQueue))
                /\ exportQueue' = Tail(exportQueue)
       /\ (submitted' # submitted \/ exportQueue' # exportQueue) =>
             \/ \E exportAll \in BOOLEAN : ExportMarkers(exportAll)
             \/ ExportNext]_vars

\* C23 witness: the request of the first marker of a two-marker payload
\* failed, and both markers were submitted, A before B.
C23_Witness ==
    /\ Len(submitted) = 2 /\ exportQueue = <<>>
    /\ submitted[1].label = "A" /\ submitted[2].label = "B"
    /\ exportToasts # <<>> /\ exportToasts[1] = "error"

\* The positions of the store whose marker is not selected.
Unselected == {i \in 1..Len(markers) : ~Includes(selectedMarkerIds, markers[i].id)}

\* The j-th of these positions.
UnselectedAt(j) ==
    CHOOSE i \in Unselected : Cardinality({k \in Unselected : k <= i}) = j

\* C24: DELETE_SELECTED_MARKERS leaves in the store exactly the markers whose
\* id was not selected, each unchanged and in the order they had, and empties
\* the selection.
C24_DeleteRemovesExactlySelected ==
    [][DeleteSelected =>
          /\ Len(markers') = Cardinality(Unselected)
          /\ \A j \in 1..Len(markers') : markers'[j] = markers[UnselectedAt(j)]
          /\ \A j \in 1..Len(markers') :
                ~Includes(selectedMarkerIds, markers'[j].id)
          /\ selectedMarkerIds' = <<>>]_vars

\* C24 witness: of the two loaded markers the first was selected and deleted:
\* the store holds the second one alone and nothing is selected.
C24_Witness ==
    /\ Len(originalMarkers) = 2 /\ Len(markers) = 1
    /\ markers[1].id = originalMarkers[2].id
    /\ selectedMarkerIds = <<>>

\* The neighbours of the dragged marker in start order, as None or Some.
DraggedPrev ==
    LET sortedMarkers == SortByStart(markers)
        currentIndex == FindIndex(sortedMarkers, dragState[1].markerId)
    IN IF currentIndex > 1 THEN Some(sortedMarkers[currentIndex - 1]) ELSE None

DraggedNext ==
    LET sortedMarkers == SortByStart(markers)
        currentIndex == FindIndex(sortedMarkers, dragState[1].markerId)
    IN IF currentIndex < Len(sortedMarkers)
       THEN Some(sortedMarkers[currentIndex + 1]) ELSE None

\* C25: after a move update the start of the moved marker is at least 0, at
\* least the end of the previous marker and at most the start of the next
\* marker minus the moved marker's duration; in particular it is never
\* negative and never before the previous marker's end, also when the gap is
\* smaller than the duration.
C25_MoveStaysWithinNeighbours ==
    [][\A x \in ClientXs :
          (MouseMove(x) /\ dragState[1].type = "move" /\ Dragged # 0) =>
             LET k == Dragged
                 duration == markers[k].endMs - markers[k].startMs
             IN /\ markers'[k].startMs >= 0
                /\ DraggedPrev # None =>
                      markers'[k].startMs >= DraggedPrev[1].endMs
                /\ DraggedNext # None =>
                      markers'[k].startMs <= DraggedNext[1].startMs - duration
      ]_vars

\* C26: a resize-left update leaves endMs as it is and sets startMs to a time
\* that is at least 0, at least the end of the previous marker and at most
\* endMs - 100, and that is the proposed start whenever the proposed start
\* satisfies these three bounds.
C26_ResizeLeftClamps ==
    [][\A x \in ClientXs :
          (MouseMove(x) /\ dragState[1].type = "resize-left" /\ Dragged # 0) =>
             LET k == Dragged
                 p == ProposedTime(dragState[1], listeners[1], x)
                 lo == IF DraggedPrev # None
                       THEN Max(0, DraggedPrev[1].endMs) ELSE 0
                 hi == markers[k].endMs - MinDurationMs
             IN /\ markers'[k].endMs = markers[k].endMs
                /\ markers'[k].startMs >= lo
                /\ markers'[k].startMs <= hi
                /\ (p >= lo /\ p <= hi) => markers'[k].startMs = p
      ]_vars

\* The zoom and scroll of the store at this moment.
CurrentView == [zoom |-> zoom, scrollLeft |-> scrollLeft]

\* C27: a drag update made after the auto-zoom of its gesture converts the
\* pointer position to a time with the zoom and the scroll in force at that
\* moment (the zoomed-in zoom and the recomputed scroll): the store becomes
\* what the update yields for that time.
C27_DragUsesCurrentView ==
    [][\A x \in ClientXs :
          (isZoomed /\ MouseMove(x) /\ Dragged # 0) =>
             markers' = DragUpdate(markers, dragState[1].markerId,
                                   dragState[1].type,
                                   ProposedTime(dragState[1], CurrentView, x))
      ]_vars

\* The time of the edge a resize gesture drags, in the store of this moment.
DraggedEdgeMs ==
    IF dragState[1].type = "resize-right" THEN markers[Dragged].endMs
    ELSE markers[Dragged].startMs

\* C28: when the auto-zoom is applied during a resize gesture, the zoom
\* becomes ZoomFactor times the zoom it replaces, and the new scroll shows the
\* dragged edge, at the time it has in the store, at the screen position it
\* had immediately before.
C28_ZoomKeepsEdgeInPlace ==
    [][(ZoomTimerFire /\ ~isZoomed /\ isZoomed' /\ Dragged # 0) =>
          /\ zoom' = zoom * ZoomFactor
          /\ TimeMsToUnits(DraggedEdgeMs, zoom') - scrollLeft' =
                TimeMsToUnits(DraggedEdgeMs, zoom) - scrollLeft]_vars

\* C29: the auto-zoom records the zoom and scroll it replaces, and pointer-up
\* after an auto-zoom sets zoom and scroll to the recorded values, so they are
\* back at their values from just before the zoom; pointer-up without an
\* auto-zoom changes neither zoom nor scroll; and after pointer-up no zoom
\* timer is pending.
C29_PointerUpRestoresPreZoomView ==
    [][/\ (ZoomTimerFire /\ ~isZoomed /\ isZoomed') =>
             originalZoomState' = Some(CurrentView)
       /\ (MouseUp /\ isZoomed) =>
             /\ originalZoomState # None
             /\ zoom' = originalZoomState[1].zoom
             /\ scrollLeft' = originalZoomState[1].scrollLeft
       /\ (MouseUp /\ ~isZoomed) => UNCHANGED << zoom, scrollLeft >>
       /\ MouseUp => pauseTimer' = "none"]_vars

\* Resize and move gestures whose pointer rests, moves within the threshold
\* and moves beyond it while time passes.
ZoomXs == {4000, 4003, 4006}
NextZoom ==
    \/ listeners = None /\ Load(GroupAB)
    \/ \E id \in Ids(markers), type \in DragTypes : MouseDown(id, type)
    \/ \E x \in ZoomXs : MouseMove(x)
    \/ TimePasses
    \/ ZoomTimerFire
    \/ MouseUp

SpecZoom == Init /\ [][NextZoom]_vars

\* The pause timer fires and zooms.
ZoomApplied ==
    /\ ZoomTimerFire
    /\ zoom' # zoom \/ scrollLeft' # scrollLeft \/ isZoomed' # isZoomed

\* C30: the auto-zoom is applied only in a resize gesture that is not zoomed
\* yet, and only by a timer that has been pending for the full PauseDelayMs;
\* the gesture stays zoomed until pointer-up, so it is zoomed at most once;
\* and a mousemove that is more than MoveThresholdPx away from the last
\* recorded position cancels the pending timer: the delay starts again from
\* zero.
C30_ZoomOnlyAfterFullDwell ==
    [][/\ ZoomApplied =>
             /\ dragState[1].type \in {"resize-left", "resize-right"}
             /\ timerAge = PauseDelayMs
             /\ ~isZoomed /\ isZoomed'
       /\ (isZoomed /\ ~isZoomed') => MouseUp
       /\ (zoom' # zoom \/ scrollLeft' # scrollLeft) => (ZoomApplied \/ MouseUp)
       /\ \A x \in ZoomXs :
             (/\ MouseMove(x)
              /\ lastDragX # None
              /\ Abs(x - lastDragX[1]) > MoveThresholdPx) =>
                (timerAge' = 0 /\ pauseTimer' # "fired")]_vars

\* C30 witness: a resize gesture with two pointer movements is zoomed in by
\* ZoomFactor.
C30_Witness ==
    /\ isZoomed /\ dragState # None
    /\ dragState[1].type \in {"resize-left", "resize-right"}
    /\ dragUpdates = 2
    /\ zoom = ZoomFactor * listeners[1].zoom

\* C31: every drag update of a marker of the store seeks the player to the
\* edited edge of the clamped marker (startMs for move and resize-left, endMs
\* for resize-right), rounded to the nearest frame.
C31_DragSeeksEditedEdge ==
    [][\A x \in ClientXs :
          (MouseMove(x) /\ Dragged # 0) =>
             LET edge == IF dragState[1].type = "resize-right"
                         THEN markers'[Dragged].endMs
                         ELSE markers'[Dragged].startMs
             IN playerTime' = FrameToTime(TimeToFrame(edge))]_vars

\* C32: while a session is active its list stays as it is and its index
\* changes only by an advance: the index grows by exactly one, the session was
\* in its dwell (the tick had seen the player at the end of the active marker
\* and paused it), and the player is sought to the start of the next marker
\* of the list and plays; and a tick starts a dwell only when none is in
\* progress.
C32_AdvanceByOneAfterDwell ==
    [][/\ (/\ seqState # None /\ seqState' # None
           /\ ~HandleSequentialPlay
           /\ \/ seqState'[1].currentIndex # seqState[1].currentIndex
              \/ seqState'[1].sortedMarkers # seqState[1].sortedMarkers) =>
             /\ PauseTimeout
             /\ seqState[1].isPausing
             /\ seqState'[1].sortedMarkers = seqState[1].sortedMarkers
             /\ seqState'[1].currentIndex = seqState[1].currentIndex + 1
             /\ ~seqState'[1].isPausing
             /\ playerTime' =
                   seqState[1].sortedMarkers[seqState'[1].currentIndex + 1].startMs
             /\ playerPlaying'
       /\ (Len(pauseTimeouts') > Len(pauseTimeouts)) =>
             (seqState # None /\ ~seqState[1].isPausing)]_vars

\* C36: whenever a playback session exists (isSequentialPlaying is set or the
\* session state is there), the session state is there, its list of markers
\* is not empty and its index is a position of the list.
C36_SessionWellFormed ==
    (isSequentialPlaying \/ seqState # None) =>
       /\ seqState # None
       /\ Len(seqState[1].sortedMarkers) > 0
       /\ seqState[1].currentIndex \in 0..(Len(seqState[1].sortedMarkers) - 1)

\* Playback of the active marker of a session reaches the marker's end.
PlaybackReachesEnd ==
    /\ isSequentialPlaying /\ seqState # None
    /\ playerPlaying
    /\ LET state == seqState[1] IN
       /\ state.currentIndex + 1 \in 1..Len(state.sortedMarkers)
       /\ ~state.isPausing
       /\ playerTime < state.sortedMarkers[state.currentIndex + 1].endMs
       /\ playerTime' = state.sortedMarkers[state.currentIndex + 1].endMs
    /\ UNCHANGED << storeVars, videoVars, selectedMarkerIds, dragVars, zoomVars,
                    playerPlaying, saveVars, seqVars, sliceVars, trimVars >>

\* Sessions that are never stopped by hand: the trigger is pressed only while
\* no session is playing, the player's time is set by hand only then, and
\* playback runs to the end of the active marker.  The polling interval, the
\* dwell timeout and playback are fair.
NextLive ==
    \/ \E g \in SessionGroups : Load(g)
    \/ \E id \in Ids(markers) : Select(id)
    \/ \E t \in PlayTimes : ~isSequentialPlaying /\ PlayerTimeChange(t)
    \/ ~isSequentialPlaying /\ HandleSequentialPlay
    \/ PlaybackReachesEnd
    \/ PollTick
    \/ PauseTimeout

SpecLive ==
    /\ Init /\ [][NextLive]_vars
    /\ WF_vars(PlaybackReachesEnd)
    /\ WF_vars(PollTick)
    /\ WF_vars(PauseTimeout)

\* C33: every started session eventually completes: the session is destroyed
\* and SEQUENTIAL_PLAY_STATE_CHANGED{isPlaying: false} is the last signal.
C33_SessionCompletes ==
    isSequentialPlaying ~>
       (~isSequentialPlaying /\ seqState = None /\ seqEvent = Some(FALSE))

\* The overlay with a resize gesture and a playback session, torn down at any
\* moment.  Events reach the component only while it is mounted; timers that
\* were not cleared fire afterwards.
NextTeardown ==
    \/ mounted /\ listeners = None /\ Load(GroupAB)
    \/ \E id \in Ids(markers) : mounted /\ listeners = None /\ Select(id)
    \/ \E id \in Ids(markers) :
          mounted /\ ~isSequentialPlaying /\ MouseDown(id, "resize-right")
    \/ mounted /\ MouseMove(4000)
    \/ mounted /\ MouseUp
    \/ TimePasses
    \/ ZoomTimerFire
    \/ \E t \in PlayTimes : mounted /\ listeners = None /\ PlayerTimeChange(t)
    \/ mounted /\ listeners = None /\ HandleSequentialPlay
    \/ PollTick
    \/ PauseTimeout
    \/ Unmount

SpecTeardown == Init /\ [][NextTeardown]_vars

\* C34: after teardown no timer callback of the overlay (dwell timeout, pause
\* timer) changes the session, the view or the player, or emits a signal.
C34_NoTimerActsAfterTeardown ==
    [][(~mounted /\ (PauseTimeout \/ ZoomTimerFire)) =>
          UNCHANGED << isSequentialPlaying, seqState, seqEvent, playerTime,
                       playerPlaying, zoom, scrollLeft, isZoomed,
                       originalZoomState >>]_vars

\* The keys of the items a scene holds.
KeysOf(scene) == {scene.trackItemsMap[i].key : i \in 1..Len(scene.trackItemsMap)}

\* The positions of a list of item ids whose id is among the keys, and the
\* j-th of them.
KeptPositions(items, keys) == {i \in 1..Len(items) : items[i] \in keys}
KeptPositionAt(items, keys, j) ==
    CHOOSE i \in KeptPositions(items, keys) :
        Cardinality({k \in KeptPositions(items, keys) : k <= i}) = j

\* out has the tracks of scene, each with its id and with the item ids of its
\* list that out retains, in the order of that list.
TracksRestricted(scene, out) ==
    /\ Len(out.tracks) = Len(scene.tracks)
    /\ \A t \in 1..Len(scene.tracks) :
          LET items == scene.tracks[t].items
              outItems == out.tracks[t].items
          IN /\ out.tracks[t].id = scene.tracks[t].id
             /\ Len(outItems) = Cardinality(KeptPositions(items, KeysOf(out)))
             /\ \A j \in 1..Len(outItems) :
                   outItems[j] = items[KeptPositionAt(items, KeysOf(out), j)]

\* C35: every marker the export processes yields a submitted scene, also when
\* the marker overlaps no item, and the scene keeps every track of the editor
\* state with exactly the item ids of its list that are retained, in their
\* order.
C35_TracksKeptAndRestricted ==
    [][/\ \A exportAll \in BOOLEAN :
             ExportMarkers(exportAll) =>
                /\ renderRequest' # None
                /\ TracksRestricted(editorScene, renderRequest'[1])
       /\ ExportNext =>
             /\ renderRequest' # None
             /\ TracksRestricted(editorScene, renderRequest'[1])]_vars

\* C35 witness: the scene submitted for a marker that overlaps no item: no
\* item, and both tracks of the editor state, empty.
C35_Witness ==
    /\ renderRequest # None
    /\ renderRequest[1].trackItemsMap = <<>>
    /\ renderRequest[1].tracks = << Track("t1", <<>>), Track("t2", <<>>) >>

\* Saving with every edit of the store possible while a request is in flight:
\* drags, re-loads and deletions, once the dialog is closed.
NextSaveEdit ==
    \/ listeners = None /\ ~showSaveDialog /\ Load(GroupAB)
    \/ \E id \in Ids(markers) : ~showSaveDialog /\ MouseDown(id, "move")
    \/ \E x \in {2000, 4000} : MouseMove(x)
    \/ MouseUp
    \/ \E id \in Ids(markers) :
          listeners = None /\ ~showSaveDialog /\ Select(id)
    \/ listeners = None /\ ~showSaveDialog /\ DeleteSelected
    \/ listeners = None /\ OpenSaveDialog
    \/ listeners = None /\ CloseSaveDialog
    \/ listeners = None /\ SaveStart
    \/ \E i \in 1..Len(inFlight) : SaveOk(i)
    \/ \E i \in 1..Len(inFlight) : SaveFail(i)

SpecSaveEdit == Init /\ [][NextSaveEdit]_vars

C38_DragChangesOnlyDragged ==
    [][\A x \in ClientXs :
          MouseMove(x) =>
             /\ Len(markers') = Len(markers)
             /\ \A i \in 1..Len(markers) :
                   /\ markers'[i].id = markers[i].id
                   /\ markers'[i].label = markers[i].label
                   /\ markers'[i].groupId = markers[i].groupId
                   /\ markers[i].id # dragState[1].markerId
                         => markers'[i] = markers[i]
             /\ Cardinality({i \in 1..Len(markers) :
                                markers'[i] # markers[i]}) <= 1]_vars

\* C38 witness: in a store of two markers, the second one was moved by the
\* drag in progress and the first one is as it was loaded.
C38_Witness ==
    /\ dragState # None /\ dragUpdates > 0
    /\ Len(markers) = 2 /\ Len(originalMarkers) = 2
    /\ dragState[1].markerId = markers[2].id
    /\ markers[2] # originalMarkers[2]
    /\ markers[1] = originalMarkers[1]

\* The windows of the scene out, sliced from scene for marker m, lie inside
\* the slice and have positive length, for every retained item whose own
\* window has positive length.
WindowsInsideSlice(scene, m, out) ==
    m.startMs < m.endMs =>
       \A e \in EntriesOf(out) :
          \A o \in EntriesOf(scene) :
             (o.key = e.key /\ ItemStart(o.item) < ItemEnd(o.item)) =>
                /\ 0 <= WindowFrom(e.item)
                /\ WindowFrom(e.item) < WindowTo(e.item)
                /\ WindowTo(e.item) <= m.endMs - m.startMs

\* C39: in every scene the export submits for a marker with startMs < endMs,
\* each retained item that had from < to has a rewritten window with
\* 0 <= from < to <= endMs - startMs.
C39_SlicedWindowsInsideSlice ==
    [][/\ \A exportAll \in BOOLEAN :
             ExportMarkers(exportAll) =>
                WindowsInsideSlice(editorScene, MarkersToExport(exportAll)[1],
                                   renderRequest'[1])
       /\ ExportNext =>
             WindowsInsideSlice(editorScene, Head(exportQueue),
                                renderRequest'[1])]_vars

\* C39 witness: the scene submitted for the marker [0,2000] against items
\* [1000,6000] and [0,1000]: the first is cut at the end of the slice, the
\* second lies inside it.
C39_Witness ==
    /\ renderRequest # None
    /\ renderRequest[1].trackItemsMap =
          << SceneEntry("i1", Item(Display(Some(1000), Some(2000)))),
             SceneEntry("i2", Item(Display(Some(0), Some(1000)))) >>

\* The trim preview of the Timeline, with the player moving on its own and
\* the Timeline rendering the player's frame at any later time.
NextTrim ==
    \/ \E t \in PlayTimes : PlayerTimeChange(t)
    \/ FrameUpdate
    \/ \E itemType \in ItemTypes, action \in TransformActions,
          corner \in Corners, left \in TargetLefts, width \in TargetWidths :
          HandleObjectResizing(itemType, action, corner, left, width)
    \/ StopPreview
    \/ \E v \in Views : ViewChange(v[1], v[2])

SpecTrim == Init /\ [][NextTrim]_vars

\* A resize event that handleObjectResizing acts on.
TrimResizeEvent ==
    \E corner \in {"ml", "mr"}, left \in TargetLefts, width \in TargetWidths :
       HandleObjectResizing("video", "resizing", corner, left, width)

\* C40: the first resize event of a video item records the playhead frame and
\* activates the preview; while the preview is active no step changes the
\* recorded frame, whatever the preview seeks and the renders that follow;
\* stopPreview on an active preview seeks the player to the recorded frame
\* and leaves the preview inactive with no recorded frame, and stopPreview on
\* an inactive preview (the second of object:modified and mouse:up) does
\* nothing, so the player is sought back once.
C40_TrimPreviewRestoresPlayhead ==
    [][/\ (TrimResizeEvent /\ ~trimPreviewState.isActive) =>
             trimPreviewState' = [isActive |-> TRUE,
                                  frameBeforeTrim |-> Some(playheadFrameRef)]
       /\ (trimPreviewState.isActive /\ trimPreviewState'.isActive) =>
             /\ trimPreviewState' = trimPreviewState
             /\ playheadFrameRef' = playheadFrameRef
       /\ (StopPreview /\ trimPreviewState.isActive) =>
             /\ trimPreviewState.frameBeforeTrim # None
             /\ playerTime' = FrameToTime(trimPreviewState.frameBeforeTrim[1])
             /\ trimPreviewState' =
                   [isActive |-> FALSE, frameBeforeTrim |-> None]
       /\ (StopPreview /\ ~trimPreviewState.isActive) => UNCHANGED vars
       /\ ~trimPreviewState'.isActive =>
             trimPreviewState'.frameBeforeTrim = None]_vars

\* C40 witness: a preview has ended: the Timeline last rendered a frame of the
\* preview, which the playhead record did not take, and the player is back at
\* the recorded frame.
C40_Witness ==
    /\ ~trimPreviewState.isActive
    /\ trimPreviewState.frameBeforeTrim = None
    /\ currentFrame # playheadFrameRef
    /\ playheadFrameRef = TimeToFrame(4500)
    /\ playerTime = FrameToTime(playheadFrameRef)

====
